---- MODULE Spec2Model ----
(***************************************************************************)
(* vtt-remote: the relay (pkg/relay: HandleClient, waitForJoin, readPump,  *)
(* writePump, trySend, the room registry) and the pairing session          *)
(* functions (isExpired and friends).                                      *)
(*                                                                         *)
(* One relay process serves the connections in Clients.  Every connection  *)
(* has a reader goroutine (HandleClient), a writer goroutine (writePump)   *)
(* and, once subscribed, a NATS delivery goroutine that runs the           *)
(* subscription callback.  A step of the model is one lock-protected       *)
(* region or one channel/bus/socket operation of the Go code.              *)
(***************************************************************************)
EXTENDS Integers, Sequences, FiniteSets, TLC

\* ------------------------------------------------------------------ bounds
\* capacity of a connection's outbound queue in the model (make(chan, 64))
SendChanCap == 1
\* frames the joined connections read in total
MaxFrames == 2
\* longest room string tried against the format rule
MaxRoomLen == 9
\* how far the host's clock runs past a multiple of the ttl, in ms
MaxTime == 4
\* auto-expire timers pending at once on the host
MaxTimers == 2
\* lifetime of a session token, in ms
TokenTtlBound == 600000
\* how many ms past an instant of interest the host's clock is looked at
MaxSkew == 1
\* WebSocket objects the phone client creates in a run
MaxSockets == 2
MaxSent == 1
MaxAttempts == 5
MaxMoves == 2

\* --------------------------------------------------------------- constants
CloseProtocolError == 4001
CloseInvalidRoom == 4002
CloseSubscribeFailed == 4003

Clients == {"c1", "c2"}

ClientTypeUnknown == ""
ClientTypeFoundry == "foundry"
ClientTypePhone == "phone"

TypeJoin == "JOIN"
TypeMove == "MOVE"
TypeIdentify == "IDENTIFY"
TypeRoomStatus == "ROOM_STATUS"

\* ----------------------------------------------------------- room strings
\* A room string is a sequence of one-character strings.
Digits == {"0", "1", "2", "3", "4", "5", "6", "7", "8", "9"}
Upper == {"A", "B", "C", "D", "E", "F", "G", "H", "I", "J", "K", "L", "M",
          "N", "O", "P", "Q", "R", "S", "T", "U", "V", "W", "X", "Y", "Z"}
Lower == {"a", "b", "c", "d", "e", "f", "g", "h", "i", "j", "k", "l", "m",
          "n", "o", "p", "q", "r", "s", "t", "u", "v", "w", "x", "y", "z"}

\* ^[a-zA-Z0-9]{4,8}$ with a bound that is one too generous
roomCodeRegexLoose(code) ==
    /\ Len(code) >= 4
    /\ Len(code) <= 9
    /\ \A i \in 1..Len(code) : code[i] \in (Lower \cup Upper \cup Digits)

\* ^[a-zA-Z0-9]{4,8}$ (Go: $ matches only at the end of the text)
roomCodeRegex(code) ==
    /\ Len(code) >= 4
    /\ Len(code) <= 8
    /\ \A i \in 1..Len(code) : code[i] \in (Lower \cup Upper \cup Digits)

ValidateRoomCode(code) == roomCodeRegex(code)

\* the subject of every room is the same one
SubjectShared(r) == <<"game">>

\* fmt.Sprintf("game.%s", c.room)
Subject(r) == <<"game", r>>

Room1 == <<"G", "A", "M", "E">>
Room2 == <<"g", "a", "m", "e">>
NoRoom == <<>>

\* ------------------------------------------------------------------ frames
\* The bytes of a frame, by what the decoders make of them: json
\* (json.Unmarshal into Envelope returns no error), type, pok (the payload decodes
\* into the struct of that type), the payload fields, and src, the
\* connection whose peer wrote these bytes ("" for frames the relay builds).
Frame(json, type, pok, rm, ct, fc, src) ==
    [json |-> json, type |-> type, pok |-> pok, room |-> rm,
     clientType |-> ct, fc |-> fc, src |-> src]

NoFrame == Frame(FALSE, "NONE", FALSE, NoRoom, "", FALSE, "")
Garbage(c) == Frame(FALSE, "", FALSE, NoRoom, "", FALSE, c)
JoinFrame(c, r) == Frame(TRUE, TypeJoin, TRUE, r, "", FALSE, c)
BadJoinFrame(c) == Frame(TRUE, TypeJoin, FALSE, NoRoom, "", FALSE, c)
MoveFrame(c) == Frame(TRUE, TypeMove, TRUE, NoRoom, "", FALSE, c)
IdentifyFrame(c, t) == Frame(TRUE, TypeIdentify, TRUE, NoRoom, t, FALSE, c)
BadIdentifyFrame(c) == Frame(TRUE, TypeIdentify, FALSE, NoRoom, "", FALSE, c)

\* a decoder that accepts any bytes
ParseEnvelopeLenient(data) ==
    [err |-> FALSE, Type |-> data.type, Payload |-> data]

\* json.Unmarshal(data, &env)
ParseEnvelope(data) ==
    IF data.json THEN [err |-> FALSE, Type |-> data.type, Payload |-> data]
    ELSE [err |-> TRUE, Type |-> "", Payload |-> NoFrame]

\* MakeEnvelope(TypeRoomStatus, RoomStatusPayload{FoundryConnected: b})
MakeEnvelope(type, b) == Frame(TRUE, type, TRUE, NoRoom, "", b, "")

\* room strings that fail the format rule: too short, a character outside
\* the class, empty, too long, a trailing newline
BadRooms ==
    {<<"A", "B", "C">>, <<"G", "A", "M", "-">>, <<>>,
     <<"A", "B", "C", "D", "E", "F", "G", "H", "9">>,
     <<"G", "A", "M", "E", "\n">>}

\* room strings the peer of c puts in its first JOIN (the second connection
\* picks its valid room from one: the other placements are renamings)
JoinRooms(c) == (IF c = "c1" THEN {Room1, Room2} ELSE {Room1}) \cup BadRooms

\* first frames of connection c
FirstFrames(c) ==
    {Garbage(c), MoveFrame(c), BadJoinFrame(c)} \cup {JoinFrame(c, r) : r \in JoinRooms(c)}

\* frames connection c sends once joined: c1 tries every kind of frame,
\* c2 plays a phone
LaterFrames(c) ==
    IF c = "c1"
    THEN {Garbage(c), MoveFrame(c), JoinFrame(c, Room2), BadIdentifyFrame(c),
          IdentifyFrame(c, "foundry"), IdentifyFrame(c, "phone"), IdentifyFrame(c, "gm")}
    ELSE {Garbage(c), MoveFrame(c), IdentifyFrame(c, "phone")}

VARIABLES
    pc,          \* position of the reader goroutine (HandleClient)
    wpc,         \* position of the writer goroutine (writePump)
    room,        \* Client.room
    clientType,  \* Client.clientType
    sub,         \* Client.sub is a live subscription
    sendChan,    \* Client.sendChan, the buffered messages
    chanClosed,  \* close(c.sendChan) has run
    closed,      \* Client.closed
    connClosed,  \* c.conn.Close() has run
    closeCode,   \* close code written by closeWithCode, 0 for none
    firstMsg,    \* the frame waitForJoin read
    rooms,       \* Relay.rooms
    pending,     \* messages NATS holds for the subscription callback
    bcList,      \* broadcastRoomStatus: clientList entries not yet sent to
    bcMsg,       \* broadcastRoomStatus / sendRoomStatus: msg
    bcTarget,    \* trySend: the client whose closed flag was read
    bcRet,       \* where the reader continues after broadcastRoomStatus
    ncClosed,    \* Relay.Close() has run
    panicked,    \* a goroutine panicked (send on closed channel)
    nframes,     \* frames read by the readPumps so far
    warned,      \* readPump has logged "Invalid message from client"
    now,         \* the host's clock (Date.now()), in ms
    session,     \* the pairing session under test
    ttlMs,       \* the ttlMs argument of the last isExpired call
    checked,     \* isExpired was called since the clock or session changed
    expired,     \* what that call returned
    pairingSessions,       \* the host's Map code -> PairingSession
    pairedTokens,          \* the host's Set of tokenIds with a paired remote
    expireTimers,          \* pending auto-expire setTimeout callbacks
    sessionTokens,         \* world setting 'sessionTokens': token -> SessionToken
    authenticatedSessions, \* the host's Map userId -> AuthenticatedSession
    users,                 \* game.users: the ids of the users that exist
    relaySocket,           \* readyState of the host's relaySocket
    sent,                  \* what the last handler passed to relaySocket.send
    validated,             \* what the last validateSession call returned
    wsState,               \* readyState of each WebSocket the client created
    wsKind,                \* which function created the socket and set its handlers
    socket,                \* the client's state.socket (0 for null)
    isConnected,           \* the client's state.isConnected
    isPaired,              \* the client's state.isPaired
    isLoggedIn,            \* the client's state.isLoggedIn
    reconnectAttempts,     \* the client's state.reconnectAttempts
    reconnectTimeout,      \* the client's reconnect timer: null, pending or fired
    pendingPairingCode,    \* the client holds a pairing code to send once open
    sendTimers,            \* the sends onopen deferred with setTimeout
    reconnectDelay,        \* the delay scheduleReconnect last passed to setTimeout
    roomCode,              \* the client's state.roomCode
    wsRoom,                \* the roomCode each socket's onopen will name in JOIN
    wsSent,                \* what state.socket's send was given, in order
    store,                 \* a Map code -> PairingSession, in insertion order
    found,                 \* what the last findSessionByToken call returned
    removed,               \* what the last cleanupExpiredSessions call returned
    clock,                 \* Date.now() on the phone
    lastMoveTime,          \* the client's state.lastMoveTime
    moveLog,               \* the times at which a MOVE was given to socket.send
    codec,                 \* a message on its way through buildMessage and parseMessage
    rmu,                   \* Relay.mu: what each handler goroutine holds of it, and since where
    tokenPos,              \* the x and y of each token document of the scene
    statusLog              \* history: the last ROOM_STATUS each sendChan took, and drops

vars == <<pc, wpc, room, clientType, sub, sendChan, chanClosed, closed,
          connClosed, closeCode, firstMsg, rooms, pending,
          bcList, bcMsg, bcTarget, bcRet, ncClosed, panicked, nframes, warned,
          now, session, ttlMs, checked, expired,
          pairingSessions, pairedTokens, expireTimers, sessionTokens,
          authenticatedSessions, users, relaySocket, sent, validated,
          wsState, wsKind, socket, isConnected, isPaired, isLoggedIn,
          reconnectAttempts, reconnectTimeout, pendingPairingCode, sendTimers,
          reconnectDelay, roomCode, wsRoom, wsSent,
          store, found, removed, clock, lastMoveTime, moveLog, codec, rmu, tokenPos, statusLog>>

relayVars == <<pc, wpc, room, clientType, sub, sendChan, chanClosed, closed,
               connClosed, closeCode, firstMsg, rooms, pending, bcList, bcMsg,
               bcTarget, bcRet, ncClosed, panicked, nframes, warned>>

sessVars == <<now, session, ttlMs, checked, expired>>

hostVars == <<pairingSessions, pairedTokens, expireTimers, sessionTokens,
              authenticatedSessions, users, relaySocket, sent, validated>>

ctlVars == <<wsState, wsKind, socket, isConnected, isPaired, isLoggedIn,
             reconnectAttempts, reconnectTimeout, pendingPairingCode, sendTimers,
             reconnectDelay, roomCode, wsRoom, wsSent>>

\* what the relay's goroutines never touch, and what the session calls
\* under test never touch
auxVars == <<store, found, removed, clock, lastMoveTime, moveLog, codec, rmu, tokenPos, statusLog>>

\* what a send on a sendChan leaves alone outside the relay
nonSendVars == <<sessVars, hostVars, ctlVars, store, found, removed, clock,
                 lastMoveTime, moveLog, codec, rmu, tokenPos>>

nonRelayVars == <<sessVars, hostVars, ctlVars, auxVars>>
nonSessVars == <<relayVars, hostVars, ctlVars, auxVars>>

\* ------------------------------------------------------- pairing sessions
\* SESSION_TTL_MS = 5 * 60 * 1000
SESSION_TTL_MS == 300000

NoSession == [code |-> "", tokenId |-> "", sceneId |-> "", actorId |-> "", createdAt |-> 0]

\* createSession(tokenId, sceneId, actorId, now), with the code generateCode drew
createSession(code, tokenId, sceneId, actorId, t) ==
    [code |-> code, tokenId |-> tokenId, sceneId |-> sceneId, actorId |-> actorId,
     createdAt |-> t]

\* isExpired with the comparison made inclusive
isExpiredInclusive(s, t, ttl) == t - s.createdAt >= ttl

\* isExpired(session, now, ttlMs)
isExpired(s, t, ttl) == t - s.createdAt > ttl

\* the host before any pairing code was issued
SessInit ==
    /\ now = 0
    /\ session = NoSession
    /\ ttlMs = SESSION_TTL_MS
    /\ checked = FALSE
    /\ expired = FALSE

\* ------------------------------------------------------------- the host
\* session token lifetime: 30 days (2592000000 ms) on the host, more than
\* TLC's integers hold; the model's tokens live TokenTtlBound ms
SESSION_TOKEN_TTL_MS == TokenTtlBound

\* pairing codes generateCode can return, and one it never issued here
Codes == {"1000", "5599"}

\* tokens a pairing dialog can be opened for
TokenIds == {"tok1", "tok2"}

\* values generateSessionToken can return
TokenValues == {"s1", "s2"}

\* the users of the world at start; alice has a password set, bob has none
UserNames == {"alice", "bob"}
userPasswords == [u \in {"alice"} |-> "h1"]

\* Map.set, Map.delete
MapSet(m, k, v) == [x \in DOMAIN m \cup {k} |-> IF x = k THEN v ELSE m[x]]
MapDelete(m, k) == [x \in DOMAIN m \ {k} |-> m[x]]
EmptyMap == [x \in {} |-> {}]

\* validateSession that consumes the session it returns
SessionsAfterValidateConsume(sessions, code, t, ttl) ==
    IF code \in DOMAIN sessions /\ ~isExpired(sessions[code], t, ttl)
    THEN MapDelete(sessions, code)
    ELSE sessions

\* the store after validateSession(sessions, code, now, ttlMs): it only
\* calls sessions.get
SessionsAfterValidate(sessions, code, t, ttl) == sessions

\* validateSession(sessions, code, now, ttlMs)
validateSession(sessions, code, t, ttl) ==
    IF code \notin DOMAIN sessions THEN NoSession
    ELSE IF isExpired(sessions[code], t, ttl) THEN NoSession
    ELSE sessions[code]

\* the store after cleanupExpiredSessions(sessions, now, ttlMs)
cleanupExpiredSessions(sessions, t, ttl) ==
    [code \in {k \in DOMAIN sessions : ~isExpired(sessions[k], t, ttl)} |->
        sessions[code]]

\* null where a SessionToken is expected
NoToken == [token |-> "", userId |-> "", createdAt |-> 0, expiresAt |-> 0]

\* validateSessionToken(token) at time t
validateSessionToken(token, t) ==
    IF token \notin DOMAIN sessionTokens THEN NoToken
    ELSE IF sessionTokens[token].expiresAt < t THEN NoToken
    ELSE sessionTokens[token]

\* verifyUserPassword(userId, passwordHash)
verifyUserPassword(userId, passwordHash) ==
    IF userId \notin DOMAIN userPasswords THEN FALSE
    ELSE userPasswords[userId] = passwordHash

\* the host once 'ready' has run and its relay socket is open
HostInit ==
    /\ pairingSessions = EmptyMap
    /\ pairedTokens = {}
    /\ expireTimers = {}
    /\ sessionTokens = EmptyMap
    /\ authenticatedSessions = EmptyMap
    /\ users = UserNames
    /\ relaySocket = "OPEN"
    /\ sent = <<>>
    /\ validated = NoSession

\* ------------------------------------------------------ the phone client
SocketIds == 1..MaxSockets

\* the room codes the user types
RoomCodes == {"ROOM1", "ROOM2"}

\* the store as created with a room code saved in localStorage: no socket,
\* nothing paired, no timer
ClientInit ==
    /\ wsState = [n \in SocketIds |-> "NONE"]
    /\ wsKind = [n \in SocketIds |-> ""]
    /\ socket = 0
    /\ isConnected = FALSE
    /\ isPaired = FALSE
    /\ isLoggedIn = FALSE
    /\ reconnectAttempts = 0
    /\ reconnectTimeout = "null"
    /\ pendingPairingCode = FALSE
    /\ sendTimers = {}
    /\ reconnectDelay = 0
    /\ roomCode = "ROOM1"
    /\ wsRoom = [n \in SocketIds |-> ""]
    /\ wsSent = <<>>

\* ------------------------------------------- messages to text and back
\* type MessageType (core/messages.ts): the declared message types
MessageTypes ==
    {"JOIN", "PAIR", "PAIR_SUCCESS", "PAIR_FAILED", "LOGIN", "LOGIN_SUCCESS",
     "LOGIN_FAILED", "SELECT_TOKEN", "SELECT_TOKEN_SUCCESS", "MOVE",
     "MOVE_ACK", "ACTOR_INFO", "ACTOR_UPDATE", "USE_ABILITY",
     "USE_ABILITY_RESULT", "ROLL_DICE", "ROLL_DICE_RESULT"}

\* the values the payload interfaces declare: strings, numbers, booleans,
\* null, arrays, and objects as their properties in insertion order
JStr(s) == [k |-> "string", v |-> s]
JNum(n) == [k |-> "number", v |-> n]
JBool(b) == [k |-> "boolean", v |-> b]
JNull == [k |-> "null", v |-> 0]
JArr(elems) == [k |-> "array", v |-> elems]
JObj(props) == [k |-> "object", v |-> props]
Prop(key, val) == [key |-> key, val |-> val]

\* the pieces of a JSON text: punctuation, literals, strings and numbers
Tok(t) == [t |-> t, s |-> "", n |-> 0]
TStr(s) == [t |-> "str", s |-> s, n |-> 0]
TNum(n) == [t |-> "num", s |-> "", n |-> n]

RECURSIVE stringify(_)
RECURSIVE stringifyElems(_, _)
RECURSIVE stringifyProps(_, _)

\* JSON.stringify of the elements elems[i..], separated by commas
stringifyElems(elems, i) ==
    IF i > Len(elems) THEN <<>>
    ELSE (IF i > 1 THEN <<Tok(",")>> ELSE <<>>)
         \o stringify(elems[i]) \o stringifyElems(elems, i + 1)

\* JSON.stringify of the properties props[i..]: "key":value, separated by commas
stringifyProps(props, i) ==
    IF i > Len(props) THEN <<>>
    ELSE (IF i > 1 THEN <<Tok(",")>> ELSE <<>>)
         \o <<TStr(props[i].key), Tok(":")>> \o stringify(props[i].val)
         \o stringifyProps(props, i + 1)

\* JSON.stringify(value)
stringify(value) ==
    CASE value.k = "string" -> <<TStr(value.v)>>
      [] value.k = "number" -> <<TNum(value.v)>>
      [] value.k = "boolean" -> <<Tok(IF value.v THEN "true" ELSE "false")>>
      [] value.k = "null" -> <<Tok("null")>>
      [] value.k = "array" ->
            <<Tok("[")>> \o stringifyElems(value.v, 1) \o <<Tok("]")>>
      [] value.k = "object" ->
            <<Tok("{")>> \o stringifyProps(value.v, 1) \o <<Tok("}")>>

\* buildMessage(type, payload): JSON.stringify({ type, payload })
buildMessage(type, payload) ==
    stringify(JObj(<<Prop("type", JStr(type)), Prop("payload", payload)>>))

\* a parse that failed (JSON.parse throws a SyntaxError)
SyntaxError == [ok |-> FALSE, val |-> JNull, next |-> 0]

Parsed(val, next) == [ok |-> TRUE, val |-> val, next |-> next]

HasProp(props, key) == \E i \in 1..Len(props) : props[i].key = key

\* obj[key] = val on an object under construction: a repeated key keeps
\* its place and takes the later value
setProp(props, key, val) ==
    IF HasProp(props, key)
    THEN [i \in 1..Len(props) |->
            IF props[i].key = key THEN Prop(key, val) ELSE props[i]]
    ELSE Append(props, Prop(key, val))

RECURSIVE parseValue(_, _)
RECURSIVE parseElems(_, _, _)
RECURSIVE parseProps(_, _, _)

\* the elements of an array from text[i] on, after "[" or ","
parseElems(text, i, acc) ==
    LET r == parseValue(text, i) IN
    IF ~r.ok \/ r.next > Len(text) THEN SyntaxError
    ELSE IF text[r.next].t = "," THEN parseElems(text, r.next + 1, Append(acc, r.val))
    ELSE IF text[r.next].t = "]" THEN Parsed(JArr(Append(acc, r.val)), r.next + 1)
    ELSE SyntaxError

\* the properties of an object from text[i] on, after "{" or ","
parseProps(text, i, acc) ==
    IF i + 2 > Len(text) \/ text[i].t # "str" \/ text[i + 1].t # ":" THEN SyntaxError
    ELSE LET r == parseValue(text, i + 2) IN
         IF ~r.ok \/ r.next > Len(text) THEN SyntaxError
         ELSE IF text[r.next].t = ","
              THEN parseProps(text, r.next + 1, setProp(acc, text[i].s, r.val))
         ELSE IF text[r.next].t = "}"
              THEN Parsed(JObj(setProp(acc, text[i].s, r.val)), r.next + 1)
         ELSE SyntaxError

\* the JSON value that starts at text[i]
parseValue(text, i) ==
    IF i > Len(text) THEN SyntaxError
    ELSE CASE text[i].t = "str" -> Parsed(JStr(text[i].s), i + 1)
           [] text[i].t = "num" -> Parsed(JNum(text[i].n), i + 1)
           [] text[i].t = "true" -> Parsed(JBool(TRUE), i + 1)
           [] text[i].t = "false" -> Parsed(JBool(FALSE), i + 1)
           [] text[i].t = "null" -> Parsed(JNull, i + 1)
           [] text[i].t = "[" ->
                IF i < Len(text) /\ text[i + 1].t = "]" THEN Parsed(JArr(<<>>), i + 2)
                ELSE parseElems(text, i + 1, <<>>)
           [] text[i].t = "{" ->
                IF i < Len(text) /\ text[i + 1].t = "}" THEN Parsed(JObj(<<>>), i + 2)
                ELSE parseProps(text, i + 1, <<>>)
           [] OTHER -> SyntaxError

\* JSON.parse(data): one value and nothing after it
JSONparse(data) ==
    LET r == parseValue(data, 1) IN
    IF r.ok /\ r.next = Len(data) + 1 THEN r ELSE SyntaxError

\* parsed[key], undefined (here: absent) when parsed has no such property
GetProp(props, key) ==
    props[CHOOSE i \in 1..Len(props) : props[i].key = key].val

\* what parseMessage returns: null, or an Envelope
NoEnvelope == [ok |-> FALSE, type |-> "", payload |-> JObj(<<>>)]

\* parseMessage with the payload left out of the Envelope
parseMessageTextNoPayload(data) ==
    LET r == JSONparse(data) IN
    IF ~r.ok \/ r.val.k # "object" THEN NoEnvelope
    ELSE IF ~HasProp(r.val.v, "type") THEN NoEnvelope
    ELSE IF GetProp(r.val.v, "type").k # "string" THEN NoEnvelope
    ELSE [ok |-> TRUE, type |-> GetProp(r.val.v, "type").v, payload |-> JObj(<<>>)]

\* parseMessage(data): null when JSON.parse throws, when reading
\* parsed.type throws (parsed is null) or when typeof parsed.type is not
\* 'string'; else { type: parsed.type, payload: parsed.payload ?? {} }
parseMessageText(data) ==
    LET r == JSONparse(data) IN
    IF ~r.ok \/ r.val.k = "null" THEN NoEnvelope
    ELSE IF r.val.k # "object" THEN NoEnvelope
    ELSE IF ~HasProp(r.val.v, "type") THEN NoEnvelope
    ELSE IF GetProp(r.val.v, "type").k # "string" THEN NoEnvelope
    ELSE [ok |-> TRUE,
          type |-> GetProp(r.val.v, "type").v,
          payload |-> IF ~HasProp(r.val.v, "payload")
                         \/ GetProp(r.val.v, "payload").k = "null"
                      THEN JObj(<<>>)
                      ELSE GetProp(r.val.v, "payload")]

RECURSIVE DeepEqual(_, _)

\* deep equality of two values: the same kind and the same content,
\* objects having the same keys with deep-equal values in any order
DeepEqual(a, b) ==
    IF a.k # b.k THEN FALSE
    ELSE CASE a.k = "array" ->
                /\ Len(a.v) = Len(b.v)
                /\ \A i \in 1..Len(a.v) : DeepEqual(a.v[i], b.v[i])
           [] a.k = "object" ->
                /\ Len(a.v) = Len(b.v)
                /\ \A i \in 1..Len(a.v) :
                      /\ HasProp(b.v, a.v[i].key)
                      /\ DeepEqual(a.v[i].val, GetProp(b.v, a.v[i].key))
           [] a.k = "null" -> TRUE
           [] OTHER -> a.v = b.v

\* an ActorPanelData (adapters/types.ts) as getActorPanelData builds it
ActorData ==
    JObj(<<Prop("tokenId", JStr("tok1")), Prop("name", JStr("Ayla")),
           Prop("resources",
                JArr(<<JObj(<<Prop("id", JStr("hp")), Prop("label", JStr("HP")),
                              Prop("current", JNum(3)), Prop("max", JNum(12))>>)>>)),
           Prop("stats",
                JArr(<<JObj(<<Prop("id", JStr("ac")), Prop("label", JStr("AC")),
                              Prop("value", JNum(15))>>),
                       JObj(<<Prop("id", JStr("speed")), Prop("label", JStr("Speed")),
                              Prop("value", JStr("30 ft"))>>)>>)),
           Prop("conditions", JArr(<<>>)),
           Prop("abilities",
                JArr(<<JObj(<<Prop("id", JStr("it1")), Prop("name", JStr("Bless")),
                              Prop("category", JStr("spell")),
                              Prop("uses", JObj(<<Prop("current", JNum(0)),
                                                  Prop("max", JNum(2))>>)),
                              Prop("prepared", JBool(TRUE))>>)>>))>>)

\* payloads of the shapes the host and the phone pass to sendMessage
Payloads ==
    << JObj(<<>>),
       JObj(<<Prop("room", JStr("GAME1"))>>),
       JObj(<<Prop("code", JStr("1234"))>>),
       JObj(<<Prop("direction", JStr("up")), Prop("tokenId", JStr("tok1"))>>),
       JObj(<<Prop("tokenId", JStr("tok1")), Prop("x", JNum(-100)), Prop("y", JNum(0))>>),
       JObj(<<Prop("tokenId", JStr("tok1")), Prop("formula", JStr("2d6+3")),
              Prop("success", JBool(TRUE)), Prop("total", JNum(11)),
              Prop("breakdown", JStr("[5, 3] + 3 = 11")),
              Prop("actorName", JStr("")), Prop("postedToChat", JBool(FALSE))>>),
       JObj(<<Prop("userId", JStr("u1")), Prop("userName", JStr("Sam")),
              Prop("availableTokens", JArr(<<JObj(<<Prop("tokenId", JStr("tok1")),
                                                    Prop("name", JStr("Ayla"))>>)>>))>>),
       JObj(<<Prop("type", JStr("MOVE")), Prop("payload", JNull)>>),
       ActorData >>

\* how deep a payload is wrapped as the changes of an ACTOR_UPDATE
MaxNest == 1

RECURSIVE Nest(_, _)
Nest(payload, d) ==
    IF d = 0 THEN payload
    ELSE JObj(<<Prop("tokenId", JStr("tok1")), Prop("changes", Nest(payload, d - 1))>>)

\* scene.grid?.size ?? 100
GridSize == 100

\* scene.dimensions.width and height, in grid cells
SceneCells == 2

\* where the tokens stand when the host starts
StartPositions == [tok \in TokenIds |-> [x |-> GridSize, y |-> 0]]

\* no history of the sends on the sendChans is kept: last[c] is the
\* foundryConnected of the last ROOM_STATUS that c.sendChan took, full says
\* that a select found a sendChan full and dropped its message
NoStatusLog ==
    [on |-> FALSE, last |-> [c \in Clients |-> ""], full |-> FALSE]

\* Relay.mu held by no goroutine
NoLocks == [c \in Clients |-> [held |-> "", at |-> ""]]

\* no RouteResult yet
NoRoute == [handler |-> "", payload |-> JObj(<<>>)]

NoCodec == [stage |-> "none", type |-> "", payload |-> JObj(<<>>),
            wire |-> <<>>, env |-> NoEnvelope, route |-> NoRoute]

MOVE_THROTTLE_MS == 150

\* no session stored, no call made, no move made: lastMoveTime is 0 and
\* the clock reads a time long after the epoch
AuxInit ==
    /\ store = <<>>
    /\ found = NoSession
    /\ removed = 0
    /\ clock = 2 * MOVE_THROTTLE_MS
    /\ lastMoveTime = 0
    /\ moveLog = <<>>
    /\ codec = NoCodec
    /\ rmu = NoLocks
    /\ tokenPos = StartPositions
    /\ statusLog = NoStatusLog

\* NewRelay, and one accepted connection per client: HandleClient's literal
RelayInit ==
    /\ pc = [c \in Clients |-> "waitForJoin"]
    /\ wpc = [c \in Clients |-> "idle"]
    /\ room = [c \in Clients |-> NoRoom]
    /\ clientType = [c \in Clients |-> ClientTypeUnknown]
    /\ sub = [c \in Clients |-> FALSE]
    /\ sendChan = [c \in Clients |-> <<>>]
    /\ chanClosed = [c \in Clients |-> FALSE]
    /\ closed = [c \in Clients |-> FALSE]
    /\ connClosed = [c \in Clients |-> FALSE]
    /\ closeCode = [c \in Clients |-> 0]
    /\ firstMsg = [c \in Clients |-> NoFrame]
    /\ rooms = [r \in {} |-> {}]
    /\ pending = [c \in Clients |-> <<>>]
    /\ bcList = [c \in Clients |-> {}]
    /\ bcMsg = [c \in Clients |-> NoFrame]
    /\ bcTarget = [c \in Clients |-> ""]
    /\ bcRet = [c \in Clients |-> ""]
    /\ ncClosed = FALSE
    /\ panicked = FALSE
    /\ warned = FALSE
    /\ nframes = 0

Init == RelayInit /\ SessInit /\ HostInit /\ ClientInit /\ AuxInit

\* ------------------------------------------------------------ the registry
\* Relay.RoomCount
RoomCount == Cardinality(DOMAIN rooms)

RECURSIVE SumSizes(_)
SumSizes(rs) ==
    IF rs = {} THEN 0
    ELSE LET r == CHOOSE x \in rs : TRUE
         IN  Cardinality(rooms[r]) + SumSizes(rs \ {r})

\* Relay.ClientCount
ClientCount == SumSizes(DOMAIN rooms)

\* a status that never reports the host
isFoundryConnectedNever(r) == FALSE

\* Relay.isFoundryConnected, and the same loop in broadcastRoomStatus
isFoundryConnected(r) ==
    /\ r \in DOMAIN rooms
    /\ \E client \in rooms[r] : clientType[client] = ClientTypeFoundry

\* the rooms map after addToRoom(c)
addToRoom(c) ==
    [r \in DOMAIN rooms \cup {room[c]} |->
        IF r = room[c]
        THEN (IF r \in DOMAIN rooms THEN rooms[r] ELSE {}) \cup {c}
        ELSE rooms[r]]

\* removeFromRoom without the delete of an emptied room
removeFromRoomKeepEmpty(c) ==
    [r \in DOMAIN rooms |-> IF r = room[c] THEN rooms[r] \ {c} ELSE rooms[r]]

\* the rooms map after removeFromRoom(c)
removeFromRoom(c) ==
    IF room[c] \in DOMAIN rooms
    THEN [r \in IF rooms[room[c]] \ {c} = {} THEN DOMAIN rooms \ {room[c]} ELSE DOMAIN rooms |->
            IF r = room[c] THEN rooms[r] \ {c} ELSE rooms[r]]
    ELSE rooms

\* ------------------------------------------------------------------ joining
\* waitForJoin without the check that the first envelope is a JOIN
JoinOutcomeAnyType(f) ==
    LET env == ParseEnvelope(f) IN
    IF env.err THEN [code |-> CloseProtocolError, room |-> NoRoom]
    ELSE IF ~env.Payload.pok THEN [code |-> CloseProtocolError, room |-> NoRoom]
    ELSE IF ~ValidateRoomCode(env.Payload.room) THEN [code |-> CloseInvalidRoom, room |-> NoRoom]
    ELSE IF ncClosed THEN [code |-> CloseSubscribeFailed, room |-> env.Payload.room]
    ELSE [code |-> 0, room |-> env.Payload.room]

\* what waitForJoin decides for first frame f: the close code (0: joined),
\* and the value of c.room afterwards
JoinOutcome(f) ==
    LET env == ParseEnvelope(f) IN
    IF env.err THEN [code |-> CloseProtocolError, room |-> NoRoom]
    ELSE IF env.Type # TypeJoin THEN [code |-> CloseProtocolError, room |-> NoRoom]
    ELSE IF ~env.Payload.pok THEN [code |-> CloseProtocolError, room |-> NoRoom]
    ELSE IF ~ValidateRoomCode(env.Payload.room) THEN [code |-> CloseInvalidRoom, room |-> NoRoom]
    ELSE IF ncClosed THEN [code |-> CloseSubscribeFailed, room |-> env.Payload.room]
    ELSE [code |-> 0, room |-> env.Payload.room]

\* waitForJoin reads frame f: closeWithCode and return, or subscribe
WaitForJoin(c, f) ==
    /\ ~panicked
    /\ UNCHANGED <<nonRelayVars, warned>>
    /\ pc[c] = "waitForJoin"
    /\ LET out == JoinOutcome(f) IN
        /\ firstMsg' = [firstMsg EXCEPT ![c] = f]
        /\ room' = [room EXCEPT ![c] = out.room]
        /\ closeCode' = [closeCode EXCEPT ![c] = out.code]
        /\ connClosed' = [connClosed EXCEPT ![c] = (out.code # 0)]
        /\ sub' = [sub EXCEPT ![c] = (out.code = 0)]
        /\ pc' = [pc EXCEPT ![c] = IF out.code = 0 THEN "addToRoom" ELSE "rejected"]
    /\ UNCHANGED <<wpc, clientType, sendChan, chanClosed, closed, rooms, pending, bcList, bcMsg, bcTarget, bcRet, ncClosed,
                   panicked, nframes>>

\* waitForJoin: ReadMessage fails (the peer went away before sending)
WaitForJoinReadError(c) ==
    /\ ~panicked
    /\ UNCHANGED <<nonRelayVars, warned>>
    /\ pc[c] = "waitForJoin"
    /\ pc' = [pc EXCEPT ![c] = "rejected"]
    /\ UNCHANGED <<wpc, room, clientType, sub, sendChan, chanClosed, closed,
                   connClosed, closeCode, firstMsg, rooms,
                   pending, bcList, bcMsg, bcTarget, bcRet, ncClosed, panicked,
                   nframes>>

\* HandleClient: r.addToRoom(client); go client.writePump()
AddToRoom(c) ==
    /\ ~panicked
    /\ UNCHANGED <<nonRelayVars, warned>>
    /\ pc[c] = "addToRoom"
    /\ rooms' = addToRoom(c)
    /\ wpc' = [wpc EXCEPT ![c] = "run"]
    /\ pc' = [pc EXCEPT ![c] = "sendRoomStatus"]
    /\ UNCHANGED <<room, clientType, sub, sendChan, chanClosed, closed,
                   connClosed, closeCode, firstMsg, pending,
                   bcList, bcMsg, bcTarget, bcRet, ncClosed, panicked, nframes>>

\* a send that makes room by evicting the oldest buffered message
OfferEvictOldest(q, msg) ==
    IF Len(q) < SendChanCap THEN Append(q, msg) ELSE Append(Tail(q), msg)

\* the history after a select offered msg to t.sendChan, whose buffer was q
Logged(t, q, msg) ==
    IF ~statusLog.on THEN statusLog
    ELSE IF Len(q) >= SendChanCap THEN [statusLog EXCEPT !.full = TRUE]
    ELSE IF msg.type = TypeRoomStatus
    THEN [statusLog EXCEPT !.last[t] = IF msg.fc THEN "true" ELSE "false"]
    ELSE statusLog

\* the select of trySend and of the subscription callback: enqueue, or drop
\* when the buffer is full
Offer(q, msg) == IF Len(q) < SendChanCap THEN Append(q, msg) ELSE q

\* sendRoomStatus: build the message from isFoundryConnected
SendRoomStatusBuild(c) ==
    /\ ~panicked
    /\ UNCHANGED <<nonRelayVars, warned>>
    /\ pc[c] = "sendRoomStatus"
    /\ bcMsg' = [bcMsg EXCEPT ![c] = MakeEnvelope(TypeRoomStatus, isFoundryConnected(room[c]))]
    /\ pc' = [pc EXCEPT ![c] = "sendStatus"]
    /\ UNCHANGED <<wpc, room, clientType, sub, sendChan, chanClosed, closed,
                   connClosed, closeCode, firstMsg, rooms,
                   pending, bcList, bcTarget, bcRet, ncClosed, panicked,
                   nframes>>

\* sendRoomStatus: c.trySend(msg) on the connection's own goroutine
SendRoomStatus(c) ==
    /\ ~panicked
    /\ UNCHANGED <<nonSendVars, warned>>
    /\ pc[c] = "sendStatus"
    /\ sendChan' = [sendChan EXCEPT ![c] = IF closed[c] THEN @ ELSE Offer(@, bcMsg[c])]
    /\ statusLog' = IF closed[c] THEN statusLog ELSE Logged(c, sendChan[c], bcMsg[c])
    /\ bcMsg' = [bcMsg EXCEPT ![c] = NoFrame]
    /\ pc' = [pc EXCEPT ![c] = "readPump"]
    /\ UNCHANGED <<wpc, room, clientType, sub, chanClosed, closed, connClosed,
                   closeCode, firstMsg, rooms, pending, bcList,
                   bcTarget, bcRet, ncClosed, panicked, nframes>>

\* ---------------------------------------------------------------- the bus
\* a bus that hands the newest message over first
PublishNewestFirst(subject, data) ==
    [d \in Clients |->
        IF sub[d] /\ Subject(room[d]) = subject THEN <<data>> \o pending[d]
        ELSE pending[d]]

\* nc.Publish(subject, data): NATS queues data for every live subscription
\* on that subject
Publish(subject, data) ==
    [d \in Clients |->
        IF sub[d] /\ Subject(room[d]) = subject THEN Append(pending[d], data)
        ELSE pending[d]]

\* the subscription callback of waitForJoin, run by NATS for the oldest
\* message it holds for c: a non-blocking send on c.sendChan
Deliver(c) ==
    /\ ~panicked
    /\ UNCHANGED <<nonSendVars, warned>>
    /\ ~ncClosed
    /\ sub[c]
    /\ pending[c] # <<>>
    /\ pending' = [pending EXCEPT ![c] = Tail(@)]
    /\ IF chanClosed[c]
       THEN panicked' = TRUE /\ UNCHANGED <<sendChan, statusLog>>
       ELSE /\ sendChan' = [sendChan EXCEPT ![c] = Offer(@, Head(pending[c]))]
            /\ statusLog' = Logged(c, sendChan[c], Head(pending[c]))
            /\ UNCHANGED panicked
    /\ UNCHANGED <<pc, wpc, room, clientType, sub, chanClosed, closed,
                   connClosed, closeCode, firstMsg, rooms,
                   bcList, bcMsg, bcTarget, bcRet, ncClosed, nframes>>

\* Relay.Close: r.nc.Close(); subscriptions stop, Subscribe and Publish fail
RelayClose ==
    /\ ~panicked
    /\ UNCHANGED <<nonRelayVars, warned>>
    /\ ~ncClosed
    /\ ncClosed' = TRUE
    /\ pending' = [c \in Clients |-> <<>>]
    /\ UNCHANGED <<pc, wpc, room, clientType, sub, sendChan, chanClosed,
                   closed, connClosed, closeCode, firstMsg, rooms, bcList, bcMsg, bcTarget, bcRet, panicked, nframes>>

\* --------------------------------------------------------------- readPump
\* a JOIN read by readPump rebinds the connection to the room it names
RoomAfterReadRebind(c, f) ==
    IF ParseEnvelope(f).Type = TypeJoin /\ f.pok THEN f.room ELSE room[c]

\* c.room after readPump handled frame f: readPump never assigns it
RoomAfterRead(c, f) == room[c]

\* handleIdentify: the client type after an IDENTIFY with payload p
IdentifiedType(c, p) ==
    IF ~p.pok THEN clientType[c]
    ELSE IF p.clientType = "foundry" THEN ClientTypeFoundry
    ELSE IF p.clientType = "phone" THEN ClientTypePhone
    ELSE clientType[c]

\* a readPump that intercepts nothing
ConsumesNothing(c, f) == FALSE

\* readPump: the frame is an IDENTIFY, handled by handleIdentify and not
\* passed on
Consumes(c, f) ==
    LET env == ParseEnvelope(f) IN ~env.err /\ env.Type = TypeIdentify

\* readPump forwards the frame only once the connection has identified
ForwardsNeedsIdentify(c, f) ==
    LET env == ParseEnvelope(f) IN
    ~env.err /\ env.Type # TypeIdentify /\ clientType[c] # ClientTypeUnknown

\* readPump: the frame is handed to nc.Publish
Forwards(c, f) ==
    LET env == ParseEnvelope(f) IN ~env.err /\ ~Consumes(c, f)

\* readPump returns and its deferred function starts:
\* c.sub.Unsubscribe(); c.markClosed()
Teardown(c) ==
    /\ sub' = [sub EXCEPT ![c] = FALSE]
    /\ pending' = [pending EXCEPT ![c] = <<>>]
    /\ closed' = [closed EXCEPT ![c] = TRUE]
    /\ pc' = [pc EXCEPT ![c] = "closeSendChan"]

\* one iteration of readPump's loop on frame f
ReadMessage(c, f) ==
    /\ ~panicked
    /\ UNCHANGED nonRelayVars
    /\ pc[c] = "readPump"
    /\ nframes < MaxFrames
    /\ nframes' = nframes + 1
    /\ warned' = (warned \/ ParseEnvelope(f).err)
    /\ room' = [room EXCEPT ![c] = RoomAfterRead(c, f)]
    /\ LET env == ParseEnvelope(f) IN
       IF env.err
       THEN UNCHANGED <<pc, clientType, pending, bcRet, sub, closed>>
       ELSE IF Consumes(c, f)
       THEN /\ clientType' = [clientType EXCEPT ![c] = IdentifiedType(c, env.Payload)]
            /\ IF IdentifiedType(c, env.Payload) # clientType[c]
               THEN /\ pc' = [pc EXCEPT ![c] = "broadcastRoomStatus"]
                    /\ bcRet' = [bcRet EXCEPT ![c] = "readPump"]
               ELSE UNCHANGED <<pc, bcRet>>
            /\ UNCHANGED <<pending, sub, closed>>
       ELSE IF ~Forwards(c, f)
       THEN UNCHANGED <<pc, clientType, pending, bcRet, sub, closed>>
       ELSE IF ncClosed
       THEN /\ Teardown(c)
            /\ UNCHANGED <<clientType, bcRet>>
       ELSE /\ pending' = Publish(Subject(room[c]), f)
            /\ UNCHANGED <<pc, clientType, bcRet, sub, closed>>
    /\ UNCHANGED <<wpc, sendChan, chanClosed, connClosed, closeCode, firstMsg,
                   rooms, bcList, bcMsg, bcTarget, ncClosed, panicked>>

\* readPump: ReadMessage fails (peer close or socket error)
ReadError(c) ==
    /\ ~panicked
    /\ UNCHANGED <<nonRelayVars, warned>>
    /\ pc[c] = "readPump"
    /\ Teardown(c)
    /\ UNCHANGED <<wpc, room, clientType, sendChan, chanClosed, connClosed,
                   closeCode, firstMsg, rooms, bcList, bcMsg, bcTarget, bcRet,
                   ncClosed, panicked, nframes>>

\* ---------------------------------------------------------------- teardown
\* the rest of readPump's deferred function, close(c.sendChan) and
\* c.conn.Close(), then HandleClient's: r.removeFromRoom(client)
CloseSendChan(c) ==
    /\ ~panicked
    /\ UNCHANGED <<nonRelayVars, warned>>
    /\ pc[c] = "closeSendChan"
    /\ chanClosed' = [chanClosed EXCEPT ![c] = TRUE]
    /\ connClosed' = [connClosed EXCEPT ![c] = TRUE]
    /\ rooms' = removeFromRoom(c)
    /\ pc' = [pc EXCEPT ![c] = "broadcastRoomStatus"]
    /\ bcRet' = [bcRet EXCEPT ![c] = "done"]
    /\ UNCHANGED <<wpc, room, clientType, sub, sendChan, closed, closeCode,
                   firstMsg, pending, bcList, bcMsg, bcTarget, ncClosed,
                   panicked, nframes>>

\* ----------------------------------------------------- broadcastRoomStatus
\* where the reader goes when broadcastRoomStatus returns
BcReturn(c) ==
    /\ pc' = [pc EXCEPT ![c] = bcRet[c]]
    /\ bcRet' = [bcRet EXCEPT ![c] = ""]
    /\ bcMsg' = [bcMsg EXCEPT ![c] = NoFrame]

\* broadcastRoomStatus, under r.mu.RLock: look the room up, compute
\* foundryConnected, copy the member set to clientList; then build msg
BroadcastRoomStatus(c) ==
    /\ ~panicked
    /\ UNCHANGED <<nonRelayVars, warned>>
    /\ pc[c] = "broadcastRoomStatus"
    /\ IF room[c] \notin DOMAIN rooms
       THEN BcReturn(c) /\ UNCHANGED bcList
       ELSE /\ bcList' = [bcList EXCEPT ![c] = rooms[room[c]]]
            /\ bcMsg' = [bcMsg EXCEPT ![c] = MakeEnvelope(TypeRoomStatus, isFoundryConnected(room[c]))]
            /\ pc' = [pc EXCEPT ![c] = "trySend"]
            /\ UNCHANGED bcRet
    /\ UNCHANGED <<wpc, room, clientType, sub, sendChan, chanClosed, closed,
                   connClosed, closeCode, firstMsg, rooms,
                   pending, bcTarget, ncClosed, panicked, nframes>>

\* trySend(msg) on the next client t of clientList, first half: read
\* t.closed under t.mu.RLock and return false when it is set
TrySendCheck(c, t) ==
    /\ ~panicked
    /\ UNCHANGED <<nonRelayVars, warned>>
    /\ pc[c] = "trySend"
    /\ t \in bcList[c]
    /\ IF closed[t]
       THEN /\ bcList' = [bcList EXCEPT ![c] = @ \ {t}]
            /\ IF bcList[c] = {t}
               THEN BcReturn(c)
               ELSE UNCHANGED <<pc, bcRet, bcMsg>>
            /\ UNCHANGED bcTarget
       ELSE /\ bcTarget' = [bcTarget EXCEPT ![c] = t]
            /\ pc' = [pc EXCEPT ![c] = "trySendSelect"]
            /\ UNCHANGED <<bcList, bcRet, bcMsg>>
    /\ UNCHANGED <<wpc, room, clientType, sub, sendChan, chanClosed, closed,
                   connClosed, closeCode, firstMsg, rooms,
                   pending, ncClosed, panicked, nframes>>

\* trySend, second half: the select on t.sendChan, after t.mu was released
TrySendSelect(c) ==
    /\ ~panicked
    /\ UNCHANGED <<nonSendVars, warned>>
    /\ pc[c] = "trySendSelect"
    /\ LET t == bcTarget[c] IN
        /\ IF chanClosed[t]
           THEN panicked' = TRUE /\ UNCHANGED <<sendChan, statusLog>>
           ELSE /\ sendChan' = [sendChan EXCEPT ![t] = Offer(@, bcMsg[c])]
                /\ statusLog' = Logged(t, sendChan[t], bcMsg[c])
                /\ UNCHANGED panicked
        /\ bcList' = [bcList EXCEPT ![c] = @ \ {t}]
        /\ bcTarget' = [bcTarget EXCEPT ![c] = ""]
        /\ IF bcList[c] = {t}
           THEN BcReturn(c)
           ELSE /\ pc' = [pc EXCEPT ![c] = "trySend"]
                /\ UNCHANGED <<bcRet, bcMsg>>
    /\ UNCHANGED <<wpc, room, clientType, sub, chanClosed, closed, connClosed,
                   closeCode, firstMsg, rooms, pending,
                   ncClosed, nframes>>

\* --------------------------------------------------------------- writePump
\* writePump: take the oldest message off c.sendChan and write it
WriteMessage(c) ==
    /\ ~panicked
    /\ UNCHANGED <<nonRelayVars, warned>>
    /\ wpc[c] = "run"
    /\ sendChan[c] # <<>>
    /\ ~connClosed[c]
    /\ sendChan' = [sendChan EXCEPT ![c] = Tail(@)]
    /\ UNCHANGED <<pc, wpc, room, clientType, sub, chanClosed, closed,
                   connClosed, closeCode, firstMsg, rooms, pending,
                   bcList, bcMsg, bcTarget, bcRet, ncClosed, panicked, nframes>>

\* writePump: WriteMessage fails (socket broken or closed), writePump returns
WriteError(c) ==
    /\ ~panicked
    /\ UNCHANGED <<nonRelayVars, warned>>
    /\ wpc[c] = "run"
    /\ sendChan[c] # <<>>
    /\ sendChan' = [sendChan EXCEPT ![c] = Tail(@)]
    /\ wpc' = [wpc EXCEPT ![c] = "done"]
    /\ UNCHANGED <<pc, room, clientType, sub, chanClosed, closed, connClosed,
                   closeCode, firstMsg, rooms, pending, bcList,
                   bcMsg, bcTarget, bcRet, ncClosed, panicked, nframes>>

\* writePump: the range loop ends, c.sendChan is closed and drained
WritePumpExit(c) ==
    /\ ~panicked
    /\ UNCHANGED <<nonRelayVars, warned>>
    /\ wpc[c] = "run"
    /\ sendChan[c] = <<>>
    /\ chanClosed[c]
    /\ wpc' = [wpc EXCEPT ![c] = "done"]
    /\ UNCHANGED <<pc, room, clientType, sub, sendChan, chanClosed, closed,
                   connClosed, closeCode, firstMsg, rooms,
                   pending, bcList, bcMsg, bcTarget, bcRet, ncClosed, panicked,
                   nframes>>

\* ------------------------------------------------------- the specifications
\* the relay while its NATS connection is open
Next ==
    \/ \E c \in Clients : \E f \in FirstFrames(c) : WaitForJoin(c, f)
    \/ \E c \in Clients : WaitForJoinReadError(c)
    \/ \E c \in Clients : AddToRoom(c)
    \/ \E c \in Clients : SendRoomStatusBuild(c)
    \/ \E c \in Clients : SendRoomStatus(c)
    \/ \E c \in Clients : \E f \in LaterFrames(c) : ReadMessage(c, f)
    \/ \E c \in Clients : ReadError(c)
    \/ \E c \in Clients : CloseSendChan(c)
    \/ \E c \in Clients : BroadcastRoomStatus(c)
    \/ \E c \in Clients : \E t \in Clients : TrySendCheck(c, t)
    \/ \E c \in Clients : TrySendSelect(c)
    \/ \E c \in Clients : Deliver(c)
    \/ \E c \in Clients : WriteMessage(c)
    \/ \E c \in Clients : connClosed[c] /\ WriteError(c)
    \/ \E c \in Clients : WritePumpExit(c)

Spec == Init /\ [][Next]_vars

\* the Go scheduler runs every runnable goroutine: the handler goroutine of
\* a connection (its teardown and status broadcast), the NATS callback and
\* the writer goroutine each keep stepping while they can
LiveSpec ==
    /\ Spec
    /\ \A c \in Clients :
        /\ WF_vars(CloseSendChan(c))
        /\ WF_vars(BroadcastRoomStatus(c))
        /\ WF_vars(\E t \in Clients : TrySendCheck(c, t))
        /\ WF_vars(TrySendSelect(c))
        /\ WF_vars(Deliver(c))
        /\ WF_vars(WriteMessage(c))
        /\ WF_vars(connClosed[c] /\ WriteError(c))
        /\ WF_vars(WritePumpExit(c))

\* the relay with failures: the NATS connection may be closed and socket
\* writes may fail
FaultNext ==
    \/ Next
    \/ RelayClose
    \/ \E c \in Clients : WriteError(c)

FaultSpec == Init /\ [][FaultNext]_vars

\* the relay with failures, its goroutines scheduled as in LiveSpec; no
\* failure and no peer is bound to act
FaultLiveSpec ==
    /\ FaultSpec
    /\ \A c \in Clients :
        /\ WF_vars(CloseSendChan(c))
        /\ WF_vars(BroadcastRoomStatus(c))
        /\ WF_vars(\E t \in Clients : TrySendCheck(c, t))
        /\ WF_vars(TrySendSelect(c))
        /\ WF_vars(Deliver(c))
        /\ WF_vars(WriteMessage(c))
        /\ WF_vars(connClosed[c] /\ WriteError(c))
        /\ WF_vars(WritePumpExit(c))

\* the relay with peers that stay connected: a connection ends only
\* through a failed publish, and writes may fail
TransportNext ==
    \/ \E c \in Clients : \E f \in FirstFrames(c) : WaitForJoin(c, f)
    \/ \E c \in Clients : AddToRoom(c)
    \/ \E c \in Clients : SendRoomStatusBuild(c)
    \/ \E c \in Clients : SendRoomStatus(c)
    \/ \E c \in Clients : \E f \in LaterFrames(c) : ReadMessage(c, f)
    \/ \E c \in Clients : CloseSendChan(c)
    \/ \E c \in Clients : BroadcastRoomStatus(c)
    \/ \E c \in Clients : \E t \in Clients : TrySendCheck(c, t)
    \/ \E c \in Clients : TrySendSelect(c)
    \/ \E c \in Clients : Deliver(c)
    \/ \E c \in Clients : WriteMessage(c)
    \/ \E c \in Clients : WriteError(c)
    \/ \E c \in Clients : WritePumpExit(c)
    \/ RelayClose

TransportSpec == Init /\ [][TransportNext]_vars

\* ------------------------------------------------- the session functions
\* time passes on the host: by a millisecond or by a whole ttl
Tick(d) ==
    /\ now + d <= SESSION_TTL_MS + MaxTime
    /\ (now + d) % SESSION_TTL_MS <= MaxTime
    /\ now' = now + d
    /\ checked' = FALSE
    /\ UNCHANGED <<session, ttlMs, expired>>
    /\ UNCHANGED nonSessVars

\* showPairingDialog: createSession(tokenId, sceneId, actorId, Date.now())
CreateSession(code) ==
    /\ session' = createSession(code, "tok1", "scene1", "actor1", now)
    /\ checked' = FALSE
    /\ UNCHANGED <<now, ttlMs, expired>>
    /\ UNCHANGED nonSessVars

\* a call isExpired(session, now, ttl)
IsExpired(ttl) ==
    /\ session # NoSession
    /\ ttlMs' = ttl
    /\ expired' = isExpired(session, now, ttl)
    /\ checked' = TRUE
    /\ UNCHANGED <<now, session>>
    /\ UNCHANGED nonSessVars

\* time-to-live values tried: short ones and the default
TTLs == (0..2) \cup {SESSION_TTL_MS}

SessionNext ==
    \/ \E d \in {1, SESSION_TTL_MS} : Tick(d)
    \/ \E code \in {"1000", "5599"} : CreateSession(code)
    \/ \E ttl \in TTLs : IsExpired(ttl)

SessionSpec == Init /\ [][SessionNext]_vars

\* ------------------------------------------------------ the host's handlers
\* what a phone can put on the wire for the host: payload fields that a
\* message type does not use are empty
Payload(pok, code, username, passwordHash, sessionToken) ==
    [pok |-> pok, code |-> code, username |-> username,
     passwordHash |-> passwordHash, sessionToken |-> sessionToken]
HostFrame(json, type, payload) == [json |-> json, type |-> type, payload |-> payload]
NoPayload == Payload(FALSE, "", "", "", "")

PairMsg(code) == HostFrame(TRUE, "PAIR", Payload(TRUE, code, "", "", ""))
LoginMsg(u, h) == HostFrame(TRUE, "LOGIN", Payload(TRUE, "", u, h, ""))
LoginWithTokenMsg(tok) == HostFrame(TRUE, "LOGIN_WITH_TOKEN", Payload(TRUE, "", "", "", tok))

\* frames about pairing the host's socket delivers: PAIR with issued and
\* unissued codes, PAIR whose payload has the wrong shape, the host's own
\* answer echoed by the room, and text that is no JSON
PairFrames ==
    {PairMsg(code) : code \in Codes \cup {"0000"}}
    \cup {HostFrame(TRUE, type, NoPayload) : type \in {"PAIR", "PAIR_FAILED"}}
    \cup {HostFrame(FALSE, "", NoPayload)}

\* frames about login: LOGIN and LOGIN_WITH_TOKEN with known and unknown
\* names, hashes and tokens, and with payloads of the wrong shape
LoginFrames ==
    {LoginMsg(u, h) : u \in UserNames \cup {"carol"}, h \in {"h1", "bad"}}
    \cup {LoginWithTokenMsg(tok) : tok \in TokenValues \cup {"forged"}}
    \cup {HostFrame(TRUE, type, NoPayload) :
            type \in {"LOGIN", "LOGIN_WITH_TOKEN", "LOGIN_FAILED"}}

HostFrames == PairFrames \cup LoginFrames

\* parseMessage(data): null (ok = FALSE) unless data is JSON with a type
parseMessage(data) ==
    IF data.json THEN [ok |-> TRUE, type |-> data.type, payload |-> data.payload]
    ELSE [ok |-> FALSE, type |-> "", payload |-> NoPayload]

\* the properties every object literal inherits from Object.prototype
ObjectPrototypeKeys ==
    {"constructor", "toString", "toLocaleString", "valueOf", "hasOwnProperty",
     "isPrototypeOf", "propertyIsEnumerable", "__proto__"}

\* what reading an inherited property yields: a function or the prototype
\* object, never a HandlerType and never undefined
InheritedValue == "Object.prototype member"

\* what reading a property yields that the object neither has nor inherits
Undefined == "undefined"

\* handlerMap[type]: routeMessage's handlerMap is an object literal, read
\* with a bracket lookup
handlerMap(type) ==
    CASE type = "JOIN" -> "join"
      [] type = "PAIR" -> "pair"
      [] type = "PAIR_SUCCESS" -> "pairSuccess"
      [] type = "PAIR_FAILED" -> "pairFailed"
      [] type = "LOGIN" -> "login"
      [] type = "LOGIN_SUCCESS" -> "loginSuccess"
      [] type = "LOGIN_FAILED" -> "loginFailed"
      [] type = "SELECT_TOKEN" -> "selectToken"
      [] type = "SELECT_TOKEN_SUCCESS" -> "selectTokenSuccess"
      [] type = "MOVE" -> "move"
      [] type = "MOVE_ACK" -> "moveAck"
      [] type = "ACTOR_INFO" -> "actorInfo"
      [] type = "ACTOR_UPDATE" -> "actorUpdate"
      [] type = "USE_ABILITY" -> "useAbility"
      [] type = "USE_ABILITY_RESULT" -> "useAbilityResult"
      [] type = "ROLL_DICE" -> "rollDice"
      [] type = "ROLL_DICE_RESULT" -> "rollDiceResult"
      [] type \in ObjectPrototypeKeys -> InheritedValue
      [] OTHER -> Undefined

\* the handlerMap entry of LOGIN_WITH_TOKEN in the core the host imports
loginWithTokenHandler == "loginWithToken"

\* routeMessage(msg).handler: handlerMap[msg.type] ?? 'unknown'
routeMessage(msg) ==
    IF msg.type = "LOGIN_WITH_TOKEN" THEN loginWithTokenHandler
    ELSE IF handlerMap(msg.type) = Undefined THEN "unknown"
    ELSE handlerMap(msg.type)

\* routeMessage(msg): { handler, payload: msg.payload }
RouteResult(msg) == [handler |-> routeMessage(msg), payload |-> msg.payload]

\* the type guards: the payload has the fields of its type, as strings
isPairPayload(payload) == payload.pok
isLoginPayload(payload) == payload.pok
isLoginWithTokenPayload(payload) == payload.pok

\* a message the host passes to sendMessage
HostOut(type, reason, tokenId, userId, sessionToken) ==
    [type |-> type, reason |-> reason, tokenId |-> tokenId, userId |-> userId,
     sessionToken |-> sessionToken]

\* sendMessage(type, payload): sent only while the socket is open
sendMessage(out) == IF relaySocket = "OPEN" THEN <<out>> ELSE <<>>

\* handlePairRequest that says nothing when the code does not validate
pairFailedReplySilent(code) == <<>>

\* handlePairRequest's else branch
pairFailedReply(code) ==
    sendMessage(HostOut("PAIR_FAILED", "Invalid or expired pairing code", "", "", ""))

\* handlePairRequest(payload); info: getActorPanelData found the actor
handlePairRequest(payload, info) ==
    IF ~isPairPayload(payload)
    THEN /\ sent' = <<>>
         /\ UNCHANGED <<pairingSessions, pairedTokens, validated>>
    ELSE LET s == validateSession(pairingSessions, payload.code, now, SESSION_TTL_MS) IN
         /\ validated' = s
         /\ pairingSessions' =
                SessionsAfterValidate(pairingSessions, payload.code, now, SESSION_TTL_MS)
         /\ IF s # NoSession
            THEN /\ pairedTokens' = pairedTokens \cup {s.tokenId}
                 /\ sent' = sendMessage(HostOut("PAIR_SUCCESS", "", s.tokenId, "", ""))
                            \o (IF info
                                THEN sendMessage(HostOut("ACTOR_INFO", "", s.tokenId, "", ""))
                                ELSE <<>>)
            ELSE /\ sent' = pairFailedReply(payload.code)
                 /\ UNCHANGED pairedTokens

\* createSessionToken: the store without its expired tokens
unexpiredTokens ==
    [k \in {x \in DOMAIN sessionTokens : ~(sessionTokens[x].expiresAt < now)} |->
        sessionTokens[k]]

\* handleLogin(payload); token: what generateSessionToken returns
handleLogin(payload, token) ==
    IF ~isLoginPayload(payload)
    THEN /\ sent' = <<>>
         /\ UNCHANGED <<authenticatedSessions, sessionTokens>>
    ELSE IF payload.username \notin users
    THEN /\ sent' = sendMessage(HostOut("LOGIN_FAILED", "user_not_found", "", "", ""))
         /\ UNCHANGED <<authenticatedSessions, sessionTokens>>
    ELSE IF payload.username \notin DOMAIN userPasswords
    THEN /\ sent' = sendMessage(HostOut("LOGIN_FAILED", "no_password_set", "", "", ""))
         /\ UNCHANGED <<authenticatedSessions, sessionTokens>>
    ELSE IF ~verifyUserPassword(payload.username, payload.passwordHash)
    THEN /\ sent' = sendMessage(HostOut("LOGIN_FAILED", "invalid_credentials", "", "", ""))
         /\ UNCHANGED <<authenticatedSessions, sessionTokens>>
    ELSE /\ authenticatedSessions' =
                MapSet(authenticatedSessions, payload.username,
                       [userId |-> payload.username, createdAt |-> now])
         /\ sessionTokens' =
                MapSet(unexpiredTokens, token,
                       [token |-> token, userId |-> payload.username,
                        createdAt |-> now, expiresAt |-> now + SESSION_TOKEN_TTL_MS])
         /\ sent' = sendMessage(HostOut("LOGIN_SUCCESS", "", "", payload.username, token))

\* handleLoginWithToken(payload)
handleLoginWithToken(payload) ==
    IF ~isLoginWithTokenPayload(payload)
    THEN /\ sent' = <<>>
         /\ UNCHANGED authenticatedSessions
    ELSE LET tokenData == validateSessionToken(payload.sessionToken, now) IN
         IF tokenData = NoToken
         THEN /\ sent' = sendMessage(HostOut("LOGIN_FAILED", "invalid_token", "", "", ""))
              /\ UNCHANGED authenticatedSessions
         ELSE IF tokenData.userId \notin users
         THEN /\ sent' = sendMessage(HostOut("LOGIN_FAILED", "user_not_found", "", "", ""))
              /\ UNCHANGED authenticatedSessions
         ELSE /\ authenticatedSessions' =
                     MapSet(authenticatedSessions, tokenData.userId,
                            [userId |-> tokenData.userId, createdAt |-> now])
              /\ sent' = sendMessage(HostOut("LOGIN_SUCCESS", "", "", tokenData.userId,
                                             payload.sessionToken))

\* relaySocket.onmessage: handleMessage(event.data)
HandleMessage(data) ==
    /\ relaySocket = "OPEN"
    /\ LET msg == parseMessage(data) IN
       IF ~msg.ok
       THEN /\ sent' = <<>>
            /\ UNCHANGED <<pairingSessions, pairedTokens, validated,
                           authenticatedSessions, sessionTokens>>
       ELSE CASE routeMessage(msg) = "pair" ->
                    /\ \E info \in BOOLEAN : handlePairRequest(msg.payload, info)
                    /\ UNCHANGED <<authenticatedSessions, sessionTokens>>
              [] routeMessage(msg) = "login" ->
                    /\ \E token \in TokenValues :
                          /\ token \notin DOMAIN unexpiredTokens
                          /\ handleLogin(msg.payload, token)
                    /\ UNCHANGED <<pairingSessions, pairedTokens, validated>>
              [] routeMessage(msg) = "loginWithToken" ->
                    /\ handleLoginWithToken(msg.payload)
                    /\ UNCHANGED <<pairingSessions, pairedTokens, validated, sessionTokens>>
              [] OTHER ->
                    /\ sent' = <<>>
                    /\ UNCHANGED <<pairingSessions, pairedTokens, validated,
                                   authenticatedSessions, sessionTokens>>
    /\ UNCHANGED <<expireTimers, users, relaySocket>>
    /\ UNCHANGED <<now, session, ttlMs, checked, expired>>
    /\ UNCHANGED relayVars
    /\ UNCHANGED <<ctlVars, auxVars>>

\* showPairingDialog(tokenData): code is what generateCode drew
ShowPairingDialog(code, tokenId) ==
    /\ Cardinality(expireTimers) < MaxTimers
    /\ pairingSessions' =
           MapSet(pairingSessions, code, createSession(code, tokenId, "scene1", "actor1", now))
    /\ expireTimers' = expireTimers \cup
           {[code |-> code, tokenId |-> tokenId, due |-> now + SESSION_TTL_MS]}
    /\ UNCHANGED <<pairedTokens, sessionTokens, authenticatedSessions, users,
                   relaySocket, sent, validated>>
    /\ UNCHANGED <<now, session, ttlMs, checked, expired>>
    /\ UNCHANGED relayVars
    /\ UNCHANGED <<ctlVars, auxVars>>

\* the auto-expire callback showPairingDialog scheduled, run once due
AutoExpire(tm) ==
    /\ tm \in expireTimers
    /\ now >= tm.due
    /\ pairingSessions' = MapDelete(pairingSessions, tm.code)
    /\ pairedTokens' = pairedTokens \ {tm.tokenId}
    /\ expireTimers' = expireTimers \ {tm}
    /\ UNCHANGED <<sessionTokens, authenticatedSessions, users, relaySocket,
                   sent, validated>>
    /\ UNCHANGED <<now, session, ttlMs, checked, expired>>
    /\ UNCHANGED relayVars
    /\ UNCHANGED <<ctlVars, auxVars>>

\* the cleanupInterval callback: cleanupExpiredSessions(pairingSessions, Date.now())
CleanupInterval ==
    /\ pairingSessions' = cleanupExpiredSessions(pairingSessions, now, SESSION_TTL_MS)
    /\ UNCHANGED <<pairedTokens, expireTimers, sessionTokens, authenticatedSessions,
                   users, relaySocket, sent, validated>>
    /\ UNCHANGED <<now, session, ttlMs, checked, expired>>
    /\ UNCHANGED relayVars
    /\ UNCHANGED <<ctlVars, auxVars>>

\* vttRemoteApi.revokeSessionToken(token)
RevokeSessionToken(token) ==
    /\ token \in DOMAIN sessionTokens
    /\ sessionTokens' = MapDelete(sessionTokens, token)
    /\ UNCHANGED <<pairingSessions, pairedTokens, expireTimers,
                   authenticatedSessions, users, relaySocket, sent, validated>>
    /\ UNCHANGED <<now, session, ttlMs, checked, expired>>
    /\ UNCHANGED relayVars
    /\ UNCHANGED <<ctlVars, auxVars>>

\* the GM deletes a user of the world
DeleteUser(u) ==
    /\ u \in users
    /\ users' = users \ {u}
    /\ UNCHANGED <<pairingSessions, pairedTokens, expireTimers, sessionTokens,
                   authenticatedSessions, relaySocket, sent, validated>>
    /\ UNCHANGED <<now, session, ttlMs, checked, expired>>
    /\ UNCHANGED relayVars
    /\ UNCHANGED <<ctlVars, auxVars>>

\* the instants the host's clock is looked at: the start, the end of the
\* session ttl and of the token ttl, and MaxSkew ms past each end
PairTimes == {0, SESSION_TTL_MS, SESSION_TTL_MS + MaxSkew}
LoginTimes == {0, SESSION_TOKEN_TTL_MS, SESSION_TOKEN_TTL_MS + MaxSkew}
HostTimes == PairTimes \cup LoginTimes

\* time passes on the host
HostTick(t) ==
    /\ t > now
    /\ now' = t
    /\ UNCHANGED <<session, ttlMs, checked, expired>>
    /\ UNCHANGED hostVars
    /\ UNCHANGED relayVars
    /\ UNCHANGED <<ctlVars, auxVars>>

\* the host issuing pairing codes and answering PAIR
PairNext ==
    \/ \E data \in PairFrames : HandleMessage(data)
    \/ \E code \in Codes : \E tokenId \in TokenIds : ShowPairingDialog(code, tokenId)
    \/ \E tm \in expireTimers : AutoExpire(tm)
    \/ CleanupInterval
    \/ \E t \in PairTimes : HostTick(t)

PairSpec == Init /\ [][PairNext]_vars

\* the host answering LOGIN and LOGIN_WITH_TOKEN
LoginNext ==
    \/ \E data \in LoginFrames : HandleMessage(data)
    \/ \E token \in TokenValues : RevokeSessionToken(token)
    \/ \E u \in UserNames : DeleteUser(u)
    \/ \E t \in LoginTimes : HostTick(t)

LoginSpec == Init /\ [][LoginNext]_vars

\* the host serving phones that pair by code or phones that log in: the
\* pairing handlers and the login handlers share no state but the socket,
\* so a run with pairing state takes pairing steps and a run with login
\* state takes login steps
HostNext ==
    \/ /\ sessionTokens = EmptyMap /\ authenticatedSessions = EmptyMap
       /\ users = UserNames
       /\ PairNext
    \/ /\ pairingSessions = EmptyMap /\ expireTimers = {}
       /\ LoginNext

HostSpec == Init /\ [][HostNext]_vars

\* ------------------------------------------------- the host moving tokens
\* a MOVE as the host's socket delivers it: pok is what isMovePayload
\* makes of the payload
MovePayload(pok, direction, tokenId) ==
    [pok |-> pok, direction |-> direction, tokenId |-> tokenId]

MoveMsg(direction, tokenId) == HostFrame(TRUE, "MOVE", MovePayload(TRUE, direction, tokenId))

\* MOVE for tok1 in each direction and in a direction that is none, for
\* tok2, for a token that does not exist, and with a payload of the wrong
\* shape
MoveFrames ==
    {MoveMsg(direction, "tok1") : direction \in {"up", "down", "left", "right", "north"}}
    \cup {MoveMsg("right", "tok2"), MoveMsg("right", "tok9")}
    \cup {HostFrame(TRUE, "MOVE", MovePayload(FALSE, "", ""))}

isMovePayload(payload) == payload.pok

\* isValidDirection(dir)
isValidDirection(dir) == dir \in {"up", "down", "left", "right"}

\* directionToDelta(direction)
directionToDelta(direction) ==
    CASE direction = "up" -> [dx |-> 0, dy |-> -1]
      [] direction = "down" -> [dx |-> 0, dy |-> 1]
      [] direction = "left" -> [dx |-> -1, dy |-> 0]
      [] direction = "right" -> [dx |-> 1, dy |-> 0]
      [] OTHER -> [dx |-> 0, dy |-> 0]

\* applyMovement(current, delta, gridSize)
applyMovement(current, delta, gridSize) ==
    [x |-> current.x + delta.dx * gridSize, y |-> current.y + delta.dy * gridSize]

\* Math.max, Math.min
MathMax(a, b) == IF a > b THEN a ELSE b
MathMin(a, b) == IF a < b THEN a ELSE b

\* clampPosition(pos, 0, 0, maxX, maxY)
clampPosition(pos, minX, minY, maxX, maxY) ==
    [x |-> MathMin(maxX, MathMax(minX, pos.x)),
     y |-> MathMin(maxY, MathMax(minY, pos.y))]

\* the sessions of the host's Map that findSessionByToken can return for
\* tokenId whatever their age
sessionsOfTokenAnyAge(tokenId, t) ==
    {code \in DOMAIN pairingSessions : pairingSessions[code].tokenId = tokenId}

\* the sessions of the host's Map that findSessionByToken can return for
\* tokenId at time t: session.tokenId === tokenId && !isExpired(session, now)
sessionsOfToken(tokenId, t) ==
    {code \in DOMAIN pairingSessions :
        /\ pairingSessions[code].tokenId = tokenId
        /\ ~isExpired(pairingSessions[code], t, SESSION_TTL_MS)}

\* handleMoveCommand(payload); exists: the scene of the session and the
\* token in it are found
handleMoveCommand(payload, exists) ==
    IF ~isMovePayload(payload) \/ ~isValidDirection(payload.direction)
    THEN sent' = <<>> /\ UNCHANGED tokenPos
    ELSE IF sessionsOfToken(payload.tokenId, now) = {}
    THEN sent' = <<>> /\ UNCHANGED tokenPos
    ELSE IF ~exists \/ payload.tokenId \notin TokenIds
    THEN sent' = <<>> /\ UNCHANGED tokenPos
    ELSE LET newPos == applyMovement(tokenPos[payload.tokenId],
                                     directionToDelta(payload.direction), GridSize)
             clampedPos == clampPosition(newPos, 0, 0, SceneCells * GridSize,
                                         SceneCells * GridSize)
         IN /\ tokenPos' = [tokenPos EXCEPT ![payload.tokenId] = clampedPos]
            /\ sent' = sendMessage(HostOut("MOVE_ACK", "", payload.tokenId, "", ""))

\* relaySocket.onmessage for a MOVE: handleMessage(event.data) down to
\* handleMoveCommand
HandleMoveMessage(data) ==
    /\ relaySocket = "OPEN"
    /\ LET msg == parseMessage(data) IN
       IF msg.ok /\ routeMessage(msg) = "move"
       THEN \E exists \in BOOLEAN : handleMoveCommand(msg.payload, exists)
       ELSE sent' = <<>> /\ UNCHANGED tokenPos
    /\ UNCHANGED <<pairingSessions, pairedTokens, validated, authenticatedSessions,
                   sessionTokens, expireTimers, users, relaySocket>>
    /\ UNCHANGED <<now, session, ttlMs, checked, expired>>
    /\ UNCHANGED relayVars
    /\ UNCHANGED ctlVars
    /\ UNCHANGED <<store, found, removed, clock, lastMoveTime, moveLog, codec, rmu,
                   statusLog>>

\* the host issuing pairing codes while MOVE messages arrive and time passes
ControlNext ==
    \/ \E data \in MoveFrames : HandleMoveMessage(data)
    \/ \E code \in Codes : \E tokenId \in TokenIds : ShowPairingDialog(code, tokenId)
    \/ \E tm \in expireTimers : AutoExpire(tm)
    \/ CleanupInterval
    \/ \E t \in PairTimes : HostTick(t)

ControlSpec == Init /\ [][ControlNext]_vars

\* ------------------------------------------- the host binding a login
\* token.ownership: the users with OWNER permission on each token
tokenOwners == [tok \in TokenIds |-> IF tok = "tok1" THEN {"alice"} ELSE {}]

\* getControllableTokens(userId, isGM, scenes): the ids of the tokens listed
getControllableTokens(userId, isGM) ==
    {tok \in TokenIds : isGM \/ userId \in tokenOwners[tok]}

\* a SELECT_TOKEN as the host's socket delivers it: pok is what
\* isSelectTokenPayload makes of the payload
SelectTokenPayload(pok, tokenId) == [pok |-> pok, tokenId |-> tokenId]

SelectTokenMsg(tokenId) ==
    HostFrame(TRUE, "SELECT_TOKEN", SelectTokenPayload(TRUE, tokenId))

\* SELECT_TOKEN for each token of the scene and for one that is not there,
\* and with a payload of the wrong shape
SelectFrames ==
    {SelectTokenMsg(tokenId) : tokenId \in TokenIds \cup {"tok9"}}
    \cup {HostFrame(TRUE, "SELECT_TOKEN", SelectTokenPayload(FALSE, ""))}

\* isSelectTokenPayload(payload)
isSelectTokenPayload(payload) == payload.pok

\* `login-${tokenId}`
sessionCodeOf(tokenId) == "login-" \o tokenId

\* handleSelectToken(payload); info: getActorPanelData returned data
handleSelectToken(payload, info) ==
    IF ~isSelectTokenPayload(payload)
    THEN sent' = <<>> /\ UNCHANGED <<pairingSessions, pairedTokens>>
    ELSE IF payload.tokenId \notin TokenIds
    THEN sent' = <<>> /\ UNCHANGED <<pairingSessions, pairedTokens>>
    ELSE /\ pairingSessions' =
                MapSet(pairingSessions, sessionCodeOf(payload.tokenId),
                       createSession(sessionCodeOf(payload.tokenId), payload.tokenId,
                                     "scene1", "actor1", now))
         /\ pairedTokens' = pairedTokens \cup {payload.tokenId}
         /\ sent' = sendMessage(HostOut("SELECT_TOKEN_SUCCESS", "", payload.tokenId, "", ""))
                    \o (IF info
                        THEN sendMessage(HostOut("ACTOR_INFO", "", payload.tokenId, "", ""))
                        ELSE <<>>)

\* relaySocket.onmessage for a SELECT_TOKEN: handleMessage(event.data) down
\* to handleSelectToken
HandleSelectMessage(data) ==
    /\ relaySocket = "OPEN"
    /\ LET msg == parseMessage(data) IN
       IF msg.ok /\ routeMessage(msg) = "selectToken"
       THEN \E info \in BOOLEAN : handleSelectToken(msg.payload, info)
       ELSE sent' = <<>> /\ UNCHANGED <<pairingSessions, pairedTokens>>
    /\ UNCHANGED <<validated, authenticatedSessions, sessionTokens, expireTimers,
                   users, relaySocket>>
    /\ UNCHANGED <<now, session, ttlMs, checked, expired>>
    /\ UNCHANGED relayVars
    /\ UNCHANGED <<ctlVars, auxVars>>

\* the host answering logins and token selections while time passes
SelectNext ==
    \/ \E data \in LoginFrames : HandleMessage(data)
    \/ \E data \in SelectFrames : HandleSelectMessage(data)
    \/ \E t \in LoginTimes : HostTick(t)

SelectSpec == Init /\ [][SelectNext]_vars

\* ------------------------------------------- the client's reconnection
\* state.socket?.readyState === WebSocket.OPEN
SocketIsOpen == socket # 0 /\ wsState[socket] = "OPEN"

\* the WebSocket object the next new WebSocket(wsUrl) returns
NewSocket == CHOOSE n \in SocketIds :
                /\ wsState[n] = "NONE"
                /\ \A k \in SocketIds : k < n => wsState[k] # "NONE"

CanCreate == \E n \in SocketIds : wsState[n] = "NONE"

\* a message of the client: its type and, for JOIN, the room it names
ClientMsg(type, rm) == [type |-> type, room |-> rm]

\* the store's sendMessage(type, payload) when the sockets are in states st:
\* sent on state.socket if that is open, else dropped
storeSendMessage(st, msg) ==
    IF socket # 0 /\ st[socket] = "OPEN"
    THEN Append(wsSent, msg)
    ELSE wsSent

\* connect(roomCode): nothing when the current socket is open, else a new
\* socket with connect's handlers becomes state.socket
connect ==
    IF SocketIsOpen
    THEN UNCHANGED <<wsState, wsKind, socket, wsRoom, wsSent>>
    ELSE /\ CanCreate
         /\ wsState' = [wsState EXCEPT ![NewSocket] = "CONNECTING"]
         /\ wsKind' = [wsKind EXCEPT ![NewSocket] = "connect"]
         /\ wsRoom' = [wsRoom EXCEPT ![NewSocket] = roomCode]
         /\ socket' = NewSocket
         /\ wsSent' = <<>>

\* socket.close() on socket n
closeCalled(n) ==
    IF n # 0 /\ wsState[n] \in {"CONNECTING", "OPEN"} THEN "CLOSING"
    ELSE IF n = 0 THEN "NONE" ELSE wsState[n]

\* an onclose that always retries
ShouldReconnectAlways == TRUE

\* socket.onclose of connect: if (get().isPaired)
ShouldReconnect == isPaired

RECURSIVE Pow2(_)
\* Math.pow(2, n)
Pow2(n) == IF n = 0 THEN 1 ELSE 2 * Pow2(n - 1)

\* Math.min(a, b)
Min(a, b) == IF a < b THEN a ELSE b

MAX_RECONNECT_DELAY == 30000

\* a delay that doubles without a ceiling
ReconnectDelayUncapped(attempts) == 1000 * Pow2(attempts)

\* Math.min(1000 * Math.pow(2, state.reconnectAttempts), MAX_RECONNECT_DELAY)
ReconnectDelay(attempts) == Min(1000 * Pow2(attempts), MAX_RECONNECT_DELAY)

\* scheduleReconnect(): the old timer is cleared, the delay computed, the
\* attempt counted and a new timer set
scheduleReconnect ==
    /\ reconnectDelay' = ReconnectDelay(reconnectAttempts)
    /\ reconnectAttempts' = reconnectAttempts + 1
    /\ reconnectTimeout' = "pending"

\* pair(pairingCode): send PAIR on an open socket, else keep the code and
\* connect
Pair ==
    /\ IF SocketIsOpen
       THEN /\ Len(wsSent) < MaxSent
            /\ wsSent' = storeSendMessage(wsState, ClientMsg("PAIR", ""))
            /\ UNCHANGED <<wsState, wsKind, socket, wsRoom, pendingPairingCode>>
       ELSE /\ pendingPairingCode' = TRUE
            /\ connect
    /\ UNCHANGED <<isConnected, isPaired, isLoggedIn, reconnectAttempts,
                   reconnectTimeout, sendTimers, reconnectDelay, roomCode>>
    /\ UNCHANGED <<relayVars, sessVars, hostVars, auxVars>>

\* connectForStatus(roomCode): nothing when already open for that room,
\* else the current socket is closed and a new one with connectForStatus's
\* handlers made
ConnectForStatus(r) ==
    /\ ~(SocketIsOpen /\ roomCode = r)
    /\ CanCreate
    /\ wsState' = [wsState EXCEPT ![NewSocket] = "CONNECTING",
                                   ![IF socket = 0 THEN NewSocket ELSE socket] =
                                       IF socket = 0 THEN "CONNECTING" ELSE closeCalled(socket)]
    /\ wsKind' = [wsKind EXCEPT ![NewSocket] = "status"]
    /\ wsRoom' = [wsRoom EXCEPT ![NewSocket] = r]
    /\ socket' = NewSocket
    /\ wsSent' = <<>>
    /\ roomCode' = r
    /\ UNCHANGED <<isConnected, isPaired, isLoggedIn, reconnectAttempts,
                   reconnectTimeout, pendingPairingCode, sendTimers,
                   reconnectDelay>>
    /\ UNCHANGED <<relayVars, sessVars, hostVars, auxVars>>

\* an onopen that leaves the count of failed attempts as it is
AttemptsOnOpenKept(attempts) == attempts

\* socket.onopen: set({ reconnectAttempts: 0 })
AttemptsOnOpen(attempts) == 0

\* an onopen that defers no IDENTIFY
OnOpenTimersNoIdentify(kind) ==
    IF kind = "connect" /\ pendingPairingCode THEN {"PAIR"} ELSE {}

\* the setTimeout calls of socket.onopen: IDENTIFY after 25 ms and, in
\* connect's handler, PAIR after 50 ms if a pairing code is pending
OnOpenTimers(kind) ==
    {"IDENTIFY"} \cup (IF kind = "connect" /\ pendingPairingCode THEN {"PAIR"} ELSE {})

\* socket.onopen of socket n: the counter is reset, JOIN is sent and the
\* IDENTIFY and PAIR sends are deferred
SocketOpen(n) ==
    /\ wsState[n] = "CONNECTING"
    /\ wsState' = [wsState EXCEPT ![n] = "OPEN"]
    /\ reconnectAttempts' = AttemptsOnOpen(reconnectAttempts)
    /\ wsSent' = storeSendMessage(wsState', ClientMsg("JOIN", wsRoom[n]))
    /\ sendTimers' = sendTimers \cup OnOpenTimers(wsKind[n])
    /\ isConnected' = (IF wsKind[n] = "connect" THEN isConnected ELSE TRUE)
    /\ wsRoom' = [wsRoom EXCEPT ![n] = ""]
    /\ UNCHANGED <<wsKind, socket, isPaired, isLoggedIn, reconnectTimeout,
                   pendingPairingCode, reconnectDelay, roomCode>>
    /\ UNCHANGED <<relayVars, sessVars, hostVars, auxVars>>

\* a setTimeout callback of onopen runs: sendMessage, and the pairing code
\* is forgotten once sent
DeferredSend(k) ==
    /\ k \in sendTimers
    /\ sendTimers' = sendTimers \ {k}
    /\ wsSent' = storeSendMessage(wsState, ClientMsg(k, ""))
    /\ pendingPairingCode' = IF k = "PAIR" THEN FALSE ELSE pendingPairingCode
    /\ UNCHANGED <<wsState, wsKind, socket, isConnected, isPaired, isLoggedIn,
                   reconnectAttempts, reconnectTimeout, reconnectDelay,
                   roomCode, wsRoom>>
    /\ UNCHANGED <<relayVars, sessVars, hostVars, auxVars>>

\* socket.onmessage, by the type of the message
ClientMessages == {"PAIR_SUCCESS", "PAIR_FAILED", "LOGIN_SUCCESS", "SELECT_TOKEN_SUCCESS"}

\* handleMessage(event): the relay sends to a connection only once it has
\* joined a room, and JOIN goes out through sendMessage on state.socket, so
\* messages arrive on state.socket while it is open and on no other socket
handleMessage(type) ==
    /\ SocketIsOpen
    /\ CASE type = "PAIR_SUCCESS" ->
              /\ isPaired' = TRUE /\ isConnected' = TRUE /\ reconnectAttempts' = 0
              /\ UNCHANGED <<isLoggedIn, pendingPairingCode>>
         [] type = "PAIR_FAILED" ->
              /\ pendingPairingCode' = FALSE
              /\ UNCHANGED <<isPaired, isConnected, reconnectAttempts, isLoggedIn>>
         [] type = "LOGIN_SUCCESS" ->
              /\ isLoggedIn' = TRUE /\ isConnected' = TRUE /\ reconnectAttempts' = 0
              /\ UNCHANGED <<isPaired, pendingPairingCode>>
         [] type = "SELECT_TOKEN_SUCCESS" ->
              /\ isPaired' = TRUE
              /\ UNCHANGED <<isConnected, reconnectAttempts, isLoggedIn, pendingPairingCode>>
         [] OTHER ->
              UNCHANGED <<isPaired, isConnected, reconnectAttempts, isLoggedIn,
                          pendingPairingCode>>
    /\ UNCHANGED <<wsState, wsKind, socket, reconnectTimeout, sendTimers,
                   reconnectDelay, roomCode, wsRoom, wsSent>>
    /\ UNCHANGED <<relayVars, sessVars, hostVars, auxVars>>

\* socket.onclose of socket n: the connection failed, was closed by the
\* peer or by close()
SocketClose(n) ==
    /\ wsState[n] \in {"CONNECTING", "OPEN", "CLOSING"}
    /\ wsState' = [wsState EXCEPT ![n] = "CLOSED"]
    /\ isConnected' = FALSE
    /\ IF wsKind[n] = "connect" /\ ShouldReconnect
       THEN scheduleReconnect
       ELSE UNCHANGED <<reconnectAttempts, reconnectTimeout, reconnectDelay>>
    /\ wsRoom' = [wsRoom EXCEPT ![n] = ""]
    /\ UNCHANGED <<wsKind, socket, isPaired, isLoggedIn, pendingPairingCode,
                   sendTimers, roomCode, wsSent>>
    /\ UNCHANGED <<relayVars, sessVars, hostVars, auxVars>>

\* the reconnect timer fires: connect again if still paired
ReconnectTimerFires ==
    /\ reconnectTimeout = "pending"
    /\ reconnectTimeout' = "fired"
    /\ IF isPaired THEN connect
       ELSE UNCHANGED <<wsState, wsKind, socket, wsRoom, wsSent>>
    /\ UNCHANGED <<isConnected, isPaired, isLoggedIn, reconnectAttempts,
                   pendingPairingCode, sendTimers, reconnectDelay, roomCode>>
    /\ UNCHANGED <<relayVars, sessVars, hostVars, auxVars>>

\* a disconnect that leaves the reconnect timer as it is
TimeoutAfterDisconnectKept == reconnectTimeout

\* disconnect: clearTimeout(reconnectTimeout); reconnectTimeout = null
TimeoutAfterDisconnect == "null"

\* disconnect(), and logout() which calls it and drops the login
Disconnect(logout) ==
    /\ reconnectTimeout' = TimeoutAfterDisconnect
    /\ wsState' = IF socket = 0 THEN wsState
                  ELSE [wsState EXCEPT ![socket] = closeCalled(socket)]
    /\ socket' = 0
    /\ wsSent' = <<>>
    /\ isConnected' = FALSE
    /\ isPaired' = FALSE
    /\ reconnectAttempts' = 0
    /\ isLoggedIn' = IF logout THEN FALSE ELSE isLoggedIn
    /\ UNCHANGED <<wsKind, pendingPairingCode, sendTimers, reconnectDelay,
                   roomCode, wsRoom>>
    /\ UNCHANGED <<relayVars, sessVars, hostVars, auxVars>>

\* the phone client with its user, its sockets and its timers
ClientNext ==
    \/ Pair
    \/ \E r \in RoomCodes : ConnectForStatus(r)
    \/ \E n \in SocketIds : SocketOpen(n)
    \/ \E k \in {"IDENTIFY", "PAIR"} : DeferredSend(k)
    \/ \E type \in ClientMessages : handleMessage(type)
    \/ \E n \in SocketIds : SocketClose(n)
    \/ ReconnectTimerFires
    \/ \E logout \in BOOLEAN : Disconnect(logout)

ClientSpec == Init /\ [][ClientNext]_vars

\* the event loop runs every setTimeout callback that is due
ClientLiveSpec ==
    /\ Init /\ [][ClientNext]_vars
    /\ \A k \in {"IDENTIFY", "PAIR"} : WF_vars(DeferredSend(k))

\* ------------------------------------------- retries after failed retries
\* a paired client whose reconnect timer has just fired after k failed
\* attempts: the socket connect made is connecting, the sockets of the
\* earlier attempts are garbage
RetryInit ==
    /\ RelayInit /\ SessInit /\ HostInit /\ AuxInit
    /\ wsState = [n \in SocketIds |-> IF n = 1 THEN "CONNECTING" ELSE "NONE"]
    /\ wsKind = [n \in SocketIds |-> IF n = 1 THEN "connect" ELSE ""]
    /\ socket = 1
    /\ isConnected = FALSE
    /\ isPaired = TRUE
    /\ isLoggedIn = FALSE
    /\ reconnectAttempts \in 1..MaxAttempts
    /\ reconnectTimeout = "fired"
    /\ pendingPairingCode = FALSE
    /\ sendTimers = {}
    /\ reconnectDelay = ReconnectDelay(reconnectAttempts - 1)
    /\ roomCode = "ROOM1"
    /\ wsRoom = [n \in SocketIds |-> IF n = 1 THEN "ROOM1" ELSE ""]
    /\ wsSent = <<>>

RetrySpec == RetryInit /\ [][ClientNext]_vars

\* ------------------------------------------------ the session store calls
\* the index of the entry with that code in an ordered Map, 0 if none
MapIndex(sessions, code) ==
    IF \E i \in 1..Len(sessions) : sessions[i].code = code
    THEN CHOOSE i \in 1..Len(sessions) : sessions[i].code = code
    ELSE 0

\* sessions.set(session.code, session): an existing key keeps its place
OrderedSet(sessions, s) ==
    IF MapIndex(sessions, s.code) = 0 THEN Append(sessions, s)
    ELSE [sessions EXCEPT ![MapIndex(sessions, s.code)] = s]

RECURSIVE findFrom(_, _, _, _, _)
\* the for loop of findSessionByToken from entry i on
findFrom(sessions, i, tokenId, t, ttl) ==
    IF i > Len(sessions) THEN NoSession
    ELSE IF sessions[i].tokenId = tokenId /\ ~isExpired(sessions[i], t, ttl)
         THEN sessions[i]
         ELSE findFrom(sessions, i + 1, tokenId, t, ttl)

RECURSIVE findFromAnyAge(_, _, _)
\* a loop that only compares the token id
findFromAnyAge(sessions, i, tokenId) ==
    IF i > Len(sessions) THEN NoSession
    ELSE IF sessions[i].tokenId = tokenId THEN sessions[i]
         ELSE findFromAnyAge(sessions, i + 1, tokenId)

\* a lookup that returns the first session of the token, expired or not
findSessionByTokenAnyAge(sessions, tokenId, t, ttl) ==
    findFromAnyAge(sessions, 1, tokenId)

\* findSessionByToken(sessions, tokenId, now, ttlMs)
findSessionByToken(sessions, tokenId, t, ttl) ==
    findFrom(sessions, 1, tokenId, t, ttl)

RECURSIVE cleanupFrom(_, _, _)
\* the for loop of cleanupExpiredSessions over the entries left to visit:
\* the Map that remains and the count of deletions
cleanupFrom(rest, t, ttl) ==
    IF rest = <<>> THEN [sessions |-> <<>>, removed |-> 0]
    ELSE LET r == cleanupFrom(Tail(rest), t, ttl)
         IN IF isExpired(Head(rest), t, ttl)
            THEN [sessions |-> r.sessions, removed |-> r.removed + 1]
            ELSE [sessions |-> <<Head(rest)>> \o r.sessions, removed |-> r.removed]

RECURSIVE cleanupUntilFirst(_, _, _)
\* a loop that ends at its first deletion
cleanupUntilFirst(rest, t, ttl) ==
    IF rest = <<>> THEN [sessions |-> <<>>, removed |-> 0]
    ELSE IF isExpired(Head(rest), t, ttl)
         THEN [sessions |-> Tail(rest), removed |-> 1]
         ELSE LET r == cleanupUntilFirst(Tail(rest), t, ttl)
              IN [sessions |-> <<Head(rest)>> \o r.sessions, removed |-> r.removed]

\* a cleanup that stops iterating once it deleted an entry
cleanupExpiredSessionsLoopOnce(sessions, t, ttl) == cleanupUntilFirst(sessions, t, ttl)

\* cleanupExpiredSessions(sessions, now, ttlMs) on the ordered Map: what
\* remains and what it returns
cleanupExpiredSessionsLoop(sessions, t, ttl) == cleanupFrom(sessions, t, ttl)

\* sessions.set(session.code, createSession(tokenId, ..., t))
StoreSet(code, tokenId, t) ==
    /\ store' = OrderedSet(store, createSession(code, tokenId, "scene1", "actor1", t))
    /\ UNCHANGED <<found, removed>>
    /\ UNCHANGED <<clock, lastMoveTime, moveLog, codec, rmu, tokenPos, statusLog>>
    /\ UNCHANGED <<relayVars, sessVars, hostVars, ctlVars>>

\* a call findSessionByToken(sessions, tokenId, t, ttl)
FindSessionByToken(tokenId, t, ttl) ==
    /\ found' = findSessionByToken(store, tokenId, t, ttl)
    /\ UNCHANGED <<store, removed>>
    /\ UNCHANGED <<clock, lastMoveTime, moveLog, codec, rmu, tokenPos, statusLog>>
    /\ UNCHANGED <<relayVars, sessVars, hostVars, ctlVars>>

\* a call cleanupExpiredSessions(sessions, t, ttl)
CleanupExpiredSessions(t, ttl) ==
    /\ store' = cleanupExpiredSessionsLoop(store, t, ttl).sessions
    /\ removed' = cleanupExpiredSessionsLoop(store, t, ttl).removed
    /\ UNCHANGED found
    /\ UNCHANGED <<clock, lastMoveTime, moveLog, codec, rmu, tokenPos, statusLog>>
    /\ UNCHANGED <<relayVars, sessVars, hostVars, ctlVars>>

\* the timestamps and time-to-live values the calls are made with
StoreTimes == {0, 1, MaxTime}
StoreTTLs == (0..1) \cup {SESSION_TTL_MS}

StoreNext ==
    \/ \E code \in Codes : \E tokenId \in TokenIds : \E t \in StoreTimes :
          StoreSet(code, tokenId, t)
    \/ \E tokenId \in TokenIds : \E t \in StoreTimes : \E ttl \in StoreTTLs :
          FindSessionByToken(tokenId, t, ttl)
    \/ \E t \in StoreTimes : \E ttl \in StoreTTLs : CleanupExpiredSessions(t, ttl)

StoreSpec == Init /\ [][StoreNext]_vars

\* ------------------------------------------- the host's replies in a room
\* the room the host joined
HostRoom == Room1

\* the bytes of a message the host built, as the relay reads them from the
\* host's connection
HostOutFrame(out) == Frame(TRUE, out.type, TRUE, NoRoom, "", FALSE, "host")

\* readPump of the host's connection, joined to HostRoom: the oldest
\* message the host sent is read and, as it is no IDENTIFY, published on
\* the room's subject
ReadHostMessage ==
    /\ ~panicked
    /\ ~ncClosed
    /\ sent # <<>>
    /\ nframes < MaxFrames
    /\ nframes' = nframes + 1
    /\ pending' = Publish(Subject(HostRoom), HostOutFrame(Head(sent)))
    /\ sent' = Tail(sent)
    /\ UNCHANGED <<pc, wpc, room, clientType, sub, sendChan, chanClosed, closed,
                   connClosed, closeCode, firstMsg, rooms, bcList, bcMsg,
                   bcTarget, bcRet, ncClosed, panicked, warned>>
    /\ UNCHANGED <<pairingSessions, pairedTokens, expireTimers, sessionTokens,
                   authenticatedSessions, users, relaySocket, validated>>
    /\ UNCHANGED <<sessVars, ctlVars, auxVars>>

\* two phones join rooms while the host, already in its room, issues
\* pairing codes and answers the PAIR messages that reach it
RouteNext ==
    \/ \E c \in Clients : \E r \in {Room1, Room2} : WaitForJoin(c, JoinFrame(c, r))
    \/ \E c \in Clients : AddToRoom(c)
    \/ \E c \in Clients : SendRoomStatusBuild(c)
    \/ \E c \in Clients : SendRoomStatus(c)
    \/ \E c \in Clients : Deliver(c)
    \/ \E c \in Clients : WriteMessage(c)
    \/ \E tokenId \in TokenIds : ShowPairingDialog("1000", tokenId)
    \/ \E data \in PairFrames : HandleMessage(data)
    \/ ReadHostMessage

RouteSpec == Init /\ [][RouteNext]_vars

\* ------------------------------------------------------ the move throttle
\* a throttle that lets a move through one millisecond early
ThrottledShort(t, last) == t - last < MOVE_THROTTLE_MS - 1

\* move: if (now - state.lastMoveTime < MOVE_THROTTLE_MS) return
Throttled(t, last) == t - last < MOVE_THROTTLE_MS

\* move(direction): nothing unless paired with a socket and outside the
\* throttle window; else the time is kept and MOVE handed to sendMessage
Move(direction) ==
    /\ isPaired /\ socket # 0
    /\ ~Throttled(clock, lastMoveTime)
    /\ Len(moveLog) < MaxMoves
    /\ lastMoveTime' = clock
    /\ wsSent' = storeSendMessage(wsState, ClientMsg("MOVE", ""))
    /\ moveLog' = IF SocketIsOpen THEN Append(moveLog, clock) ELSE moveLog
    /\ UNCHANGED <<wsState, wsKind, socket, isConnected, isPaired, isLoggedIn,
                   reconnectAttempts, reconnectTimeout, pendingPairingCode,
                   sendTimers, reconnectDelay, roomCode, wsRoom>>
    /\ UNCHANGED <<store, found, removed, clock, codec, rmu, tokenPos, statusLog>>
    /\ UNCHANGED <<relayVars, sessVars, hostVars>>

\* the times at which the phone's clock is read: around each multiple of
\* the throttle window after the start
MoveTimes ==
    {2 * MOVE_THROTTLE_MS + k * MOVE_THROTTLE_MS + e : k \in 0..MaxMoves, e \in {-1, 0, 1}}

\* time passes on the phone
ClockAdvance(t) ==
    /\ t > clock
    /\ clock' = t
    /\ UNCHANGED <<store, found, removed, lastMoveTime, moveLog, codec, rmu, tokenPos, statusLog>>
    /\ UNCHANGED <<relayVars, sessVars, hostVars, ctlVars>>

Directions == {"up", "down", "left", "right"}

\* a paired client on the control screen: its socket is open, JOIN,
\* IDENTIFY and PAIR were sent on it and PAIR_SUCCESS was handled
MoveInit ==
    /\ RelayInit /\ SessInit /\ HostInit /\ AuxInit
    /\ wsState = [n \in SocketIds |-> IF n = 1 THEN "OPEN" ELSE "NONE"]
    /\ wsKind = [n \in SocketIds |-> IF n = 1 THEN "connect" ELSE ""]
    /\ socket = 1
    /\ isConnected = TRUE
    /\ isPaired = TRUE
    /\ isLoggedIn = FALSE
    /\ reconnectAttempts = 0
    /\ reconnectTimeout = "null"
    /\ pendingPairingCode = FALSE
    /\ sendTimers = {}
    /\ reconnectDelay = 0
    /\ roomCode = "ROOM1"
    /\ wsRoom = [n \in SocketIds |-> ""]
    /\ wsSent = <<ClientMsg("JOIN", "ROOM1"), ClientMsg("IDENTIFY", ""), ClientMsg("PAIR", "")>>

\* the user taps the pad while time passes and the socket drops and
\* comes back
MoveNext ==
    \/ \E direction \in Directions : Move(direction)
    \/ \E t \in MoveTimes : ClockAdvance(t)
    \/ \E n \in SocketIds : SocketClose(n)
    \/ ReconnectTimerFires
    \/ \E n \in SocketIds : SocketOpen(n)
    \/ \E k \in {"IDENTIFY", "PAIR"} : DeferredSend(k)

MoveSpec == MoveInit /\ [][MoveNext]_vars

\* ------------------------------------------- a message built and parsed
\* sendMessage(type, payload), first half: msg = buildMessage(type, payload)
BuildMessage ==
    /\ codec.stage = "input"
    /\ codec' = [codec EXCEPT !.stage = "built",
                              !.wire = buildMessage(codec.type, codec.payload)]
    /\ UNCHANGED <<relayVars, sessVars, hostVars, ctlVars>>
    /\ UNCHANGED <<store, found, removed, clock, lastMoveTime, moveLog, rmu, tokenPos, statusLog>>

\* the host's handleMessage(data), first half: msg = parseMessage(data)
ParseMessage ==
    /\ codec.stage = "built"
    /\ codec' = [codec EXCEPT !.stage = "parsed",
                              !.env = parseMessageText(codec.wire)]
    /\ UNCHANGED <<relayVars, sessVars, hostVars, ctlVars>>
    /\ UNCHANGED <<store, found, removed, clock, lastMoveTime, moveLog, rmu, tokenPos, statusLog>>

\* a declared type and a payload, about to be built
CodecInit ==
    /\ RelayInit /\ SessInit /\ HostInit /\ ClientInit
    /\ store = <<>>
    /\ found = NoSession
    /\ removed = 0
    /\ clock = 2 * MOVE_THROTTLE_MS
    /\ lastMoveTime = 0
    /\ moveLog = <<>>
    /\ rmu = NoLocks
    /\ tokenPos = StartPositions
    /\ statusLog = NoStatusLog
    /\ \E type \in MessageTypes, i \in 1..Len(Payloads), d \in 0..MaxNest :
          codec = [NoCodec EXCEPT !.stage = "input", !.type = type,
                                  !.payload = Nest(Payloads[i], d)]

CodecNext == BuildMessage \/ ParseMessage

CodecSpec == CodecInit /\ [][CodecNext]_vars

\* ------------------------------------------------- an envelope routed
\* type strings that are not declared message types: the one of the
\* test, the empty string, a handler tag, a type in lower case, and names
\* of properties of Object.prototype
OtherTypes ==
    {"UNKNOWN", "", "join", "move", "Join", "PING"} \cup ObjectPrototypeKeys

\* the host's handleMessage(data), second half: routeMessage(msg)
RouteMessage ==
    /\ codec.stage = "parsed"
    /\ codec.env.ok
    /\ codec' = [codec EXCEPT !.stage = "routed", !.route = RouteResult(codec.env)]
    /\ UNCHANGED <<relayVars, sessVars, hostVars, ctlVars>>
    /\ UNCHANGED <<store, found, removed, clock, lastMoveTime, moveLog, rmu, tokenPos, statusLog>>

\* an Envelope parseMessage returned: any type string, any payload
RouterInit ==
    /\ RelayInit /\ SessInit /\ HostInit /\ ClientInit
    /\ store = <<>>
    /\ found = NoSession
    /\ removed = 0
    /\ clock = 2 * MOVE_THROTTLE_MS
    /\ lastMoveTime = 0
    /\ moveLog = <<>>
    /\ rmu = NoLocks
    /\ tokenPos = StartPositions
    /\ statusLog = NoStatusLog
    /\ \E type \in MessageTypes \cup OtherTypes, i \in 1..Len(Payloads) :
          codec = [NoCodec EXCEPT !.stage = "parsed", !.type = type,
                                  !.payload = Payloads[i],
                                  !.env = [ok |-> TRUE, type |-> type,
                                           payload |-> Payloads[i]]]

RouterNext == RouteMessage

RouterSpec == RouterInit /\ [][RouterNext]_vars

\* --------------------------------------------------- text as it arrives
\* json.Unmarshal(data, &env) into Envelope{Type MessageType; Payload
\* json.RawMessage}: an error for text that is not JSON, for a value that
\* is neither an object nor null, and for a type that is neither a string
\* nor null; a key the object lacks leaves its field at the zero value
ParseEnvelopeText(data) ==
    LET r == JSONparse(data) IN
    IF ~r.ok THEN NoEnvelope
    ELSE IF r.val.k = "null" THEN [ok |-> TRUE, type |-> "", payload |-> JNull]
    ELSE IF r.val.k # "object" THEN NoEnvelope
    ELSE IF HasProp(r.val.v, "type")
            /\ GetProp(r.val.v, "type").k \notin {"string", "null"} THEN NoEnvelope
    ELSE [ok |-> TRUE,
          type |-> IF HasProp(r.val.v, "type") /\ GetProp(r.val.v, "type").k = "string"
                   THEN GetProp(r.val.v, "type").v ELSE "",
          payload |-> IF HasProp(r.val.v, "payload")
                      THEN GetProp(r.val.v, "payload") ELSE JNull]

\* the relay's readPump / waitForJoin, first half: ParseEnvelope(data)
UnmarshalEnvelope ==
    /\ codec.stage = "built"
    /\ codec' = [codec EXCEPT !.stage = "unmarshalled",
                              !.env = ParseEnvelopeText(codec.wire)]
    /\ UNCHANGED <<relayVars, sessVars, hostVars, ctlVars>>
    /\ UNCHANGED <<store, found, removed, clock, lastMoveTime, moveLog, rmu, tokenPos, statusLog>>

JoinText == stringify(JObj(<<Prop("type", JStr("JOIN"))>>))

\* texts a peer can send: JSON objects with and without a type and a
\* payload, other JSON values, and text that is not JSON
RawTexts ==
    << buildMessage("JOIN", JObj(<<Prop("room", JStr("GAME1"))>>)),
       JoinText,
       stringify(JObj(<<Prop("payload", JObj(<<>>))>>)),
       stringify(JObj(<<>>)),
       stringify(JObj(<<Prop("type", JNum(5)), Prop("payload", JObj(<<>>))>>)),
       stringify(JObj(<<Prop("type", JNull)>>)),
       stringify(JObj(<<Prop("type", JBool(TRUE))>>)),
       stringify(JObj(<<Prop("type", JObj(<<Prop("type", JStr("JOIN"))>>))>>)),
       stringify(JObj(<<Prop("type", JArr(<<JStr("JOIN")>>))>>)),
       stringify(JObj(<<Prop("type", JStr("JOIN")), Prop("payload", JNull)>>)),
       stringify(JObj(<<Prop("type", JStr("")), Prop("payload", JNum(5))>>)),
       stringify(JObj(<<Prop("payload", JObj(<<Prop("type", JStr("JOIN"))>>))>>)),
       stringify(JArr(<<>>)),
       stringify(JArr(<<JObj(<<Prop("type", JStr("JOIN"))>>)>>)),
       stringify(JStr("JOIN")),
       stringify(JNum(5)),
       stringify(JNull),
       stringify(JBool(TRUE)),
       <<>>,
       <<Tok("{"), Tok("not"), Tok("valid"), Tok("}")>>,
       JoinText \o <<Tok("}")>>,
       SubSeq(JoinText, 1, Len(JoinText) - 1),
       <<Tok("{"), TStr("type"), Tok(":"), TStr("JOIN"), Tok(","), Tok("}")>>,
       <<Tok("{"), TStr("type"), TStr("JOIN"), Tok("}")>>,
       <<Tok("{"), TStr("type"), Tok(":"), TStr("JOIN"), Tok(","),
         TStr("type"), Tok(":"), TNum(5), Tok("}")>> >>

\* a text is about to be parsed: one of RawTexts, or a message built here
ParseInit ==
    /\ RelayInit /\ SessInit /\ HostInit /\ ClientInit
    /\ store = <<>>
    /\ found = NoSession
    /\ removed = 0
    /\ clock = 2 * MOVE_THROTTLE_MS
    /\ lastMoveTime = 0
    /\ moveLog = <<>>
    /\ rmu = NoLocks
    /\ tokenPos = StartPositions
    /\ statusLog = NoStatusLog
    /\ \/ \E i \in 1..Len(RawTexts) :
             codec = [NoCodec EXCEPT !.stage = "built", !.wire = RawTexts[i]]
       \/ \E type \in MessageTypes, i \in 1..Len(Payloads) :
             codec = [NoCodec EXCEPT !.stage = "built", !.type = type,
                                     !.payload = Payloads[i],
                                     !.wire = buildMessage(type, Payloads[i])]

ParseNext == ParseMessage \/ UnmarshalEnvelope

ParseSpec == ParseInit /\ [][ParseNext]_vars

\* ------------------------------------------------- the registry's lock
\* the part of Relay.mu the handler goroutine of c takes for the function
\* it is about to run: addToRoom and removeFromRoom take r.mu.Lock,
\* isFoundryConnected and broadcastRoomStatus take r.mu.RLock
NeedsLock(c) ==
    CASE pc[c] = "addToRoom" -> "W"
      [] pc[c] = "closeSendChan" -> "W"
      [] pc[c] = "sendRoomStatus" -> "R"
      [] pc[c] = "broadcastRoomStatus" -> "R"
      [] OTHER -> ""

\* sync.RWMutex: Lock returns when nobody holds the mutex, RLock when no
\* writer does
CanLock(c, kind) ==
    IF kind = "W" THEN \A d \in Clients \ {c} : rmu[d].held = ""
    ELSE \A d \in Clients \ {c} : rmu[d].held # "W"

\* r.mu.Lock() / r.mu.RLock() at the head of the function
Acquire(c) ==
    /\ ~panicked
    /\ NeedsLock(c) # ""
    /\ rmu[c].at = ""
    /\ CanLock(c, NeedsLock(c))
    /\ rmu' = [rmu EXCEPT ![c] = [held |-> NeedsLock(c), at |-> pc[c]]]
    /\ UNCHANGED <<relayVars, sessVars, hostVars, ctlVars>>
    /\ UNCHANGED <<store, found, removed, clock, lastMoveTime, moveLog, codec, tokenPos, statusLog>>

\* an unlock that is deferred past the sends that follow
HeldAfterUnlockKept(c) == rmu[c].held

\* what the goroutine holds after r.mu.Unlock() / r.mu.RUnlock()
HeldAfterUnlock(c) == ""

\* the unlock: deferred to the return of addToRoom, removeFromRoom and
\* isFoundryConnected; in broadcastRoomStatus written out after the copy
\* of the member set and before MakeEnvelope and the sends
Release(c) ==
    /\ ~panicked
    /\ rmu[c].at # ""
    /\ pc[c] # rmu[c].at
    /\ rmu' = [rmu EXCEPT ![c] = [held |-> HeldAfterUnlock(c), at |-> ""]]
    /\ UNCHANGED <<relayVars, sessVars, hostVars, ctlVars>>
    /\ UNCHANGED <<store, found, removed, clock, lastMoveTime, moveLog, codec, tokenPos, statusLog>>

\* the goroutine is inside the function it locked the registry for
InLocked(c) == rmu[c].at = pc[c]

\* the goroutine is in none of the locking functions
Outside(c) == rmu[c].at = ""

\* frames read while the registry is watched: role changes of c1, a move
\* of c2
LockFrames(c) ==
    IF c = "c1" THEN {IdentifyFrame(c, "foundry"), IdentifyFrame(c, "phone")}
    ELSE {MoveFrame(c)}

\* the relay with every step of a locking function between its lock and
\* its unlock, and every other step of the goroutine after the unlock
LockNext ==
    \/ \E c \in Clients : Acquire(c)
    \/ \E c \in Clients : Release(c)
    \/ \E c \in Clients : Outside(c) /\ WaitForJoin(c, JoinFrame(c, Room1))
    \/ \E c \in Clients : InLocked(c) /\ AddToRoom(c)
    \/ \E c \in Clients : InLocked(c) /\ SendRoomStatusBuild(c)
    \/ \E c \in Clients : Outside(c) /\ SendRoomStatus(c)
    \/ \E c \in Clients : \E f \in LockFrames(c) : Outside(c) /\ ReadMessage(c, f)
    \/ \E c \in Clients : Outside(c) /\ ReadError(c)
    \/ \E c \in Clients : InLocked(c) /\ CloseSendChan(c)
    \/ \E c \in Clients : InLocked(c) /\ BroadcastRoomStatus(c)
    \/ \E c \in Clients : \E t \in Clients : Outside(c) /\ TrySendCheck(c, t)
    \/ \E c \in Clients : Outside(c) /\ TrySendSelect(c)
    \/ \E c \in Clients : Deliver(c)

LockSpec == Init /\ [][LockNext]_vars

\* ------------------------------------------------- status sends remembered
\* the relay with the history of its sends switched on
StatusInit ==
    /\ RelayInit /\ SessInit /\ HostInit /\ ClientInit
    /\ store = <<>>
    /\ found = NoSession
    /\ removed = 0
    /\ clock = 2 * MOVE_THROTTLE_MS
    /\ lastMoveTime = 0
    /\ moveLog = <<>>
    /\ codec = NoCodec
    /\ rmu = NoLocks
    /\ tokenPos = StartPositions
    /\ statusLog = [NoStatusLog EXCEPT !.on = TRUE]

\* what the two connections send once joined: each may identify as the host
\* or as a phone, and c2 also sends a message to forward
StatusFrames(c) ==
    IF c = "c1"
    THEN {IdentifyFrame(c, "foundry"), IdentifyFrame(c, "phone")}
    ELSE {IdentifyFrame(c, "foundry"), IdentifyFrame(c, "phone"), MoveFrame(c)}

\* two connections joining one room, identifying, leaving, and being written to
StatusNext ==
    \/ \E c \in Clients : WaitForJoin(c, JoinFrame(c, Room1))
    \/ \E c \in Clients : AddToRoom(c)
    \/ \E c \in Clients : SendRoomStatusBuild(c)
    \/ \E c \in Clients : SendRoomStatus(c)
    \/ \E c \in Clients : \E f \in StatusFrames(c) : ReadMessage(c, f)
    \/ \E c \in Clients : ReadError(c)
    \/ \E c \in Clients : CloseSendChan(c)
    \/ \E c \in Clients : BroadcastRoomStatus(c)
    \/ \E c \in Clients : \E t \in Clients : TrySendCheck(c, t)
    \/ \E c \in Clients : TrySendSelect(c)
    \/ \E c \in Clients : Deliver(c)
    \/ \E c \in Clients : WriteMessage(c)

StatusSpec == StatusInit /\ [][StatusNext]_vars

\* ------------------------------------------------ joins over all strings
\* every string of at most MaxRoomLen characters over a letter, a digit and
\* a character outside the class
RoomAlphabet == {"Z", "7", "-"}
RoomStrings == UNION {[1..n -> RoomAlphabet] : n \in 0..MaxRoomLen}

\* one connection joins Room1 and stays; the other sends a first JOIN
\* naming any string
JoinNext ==
    \/ pc["c1"] = "waitForJoin" /\ \E r \in RoomStrings : WaitForJoin("c1", JoinFrame("c1", r))
    \/ WaitForJoin("c2", JoinFrame("c2", Room1))
    \/ \E c \in Clients : AddToRoom(c)
    \/ \E c \in Clients : SendRoomStatusBuild(c)
    \/ \E c \in Clients : SendRoomStatus(c)

JoinSpec == Init /\ [][JoinNext]_vars

\* =================================================================== claims
Range(q) == {q[i] : i \in 1..Len(q)}

\* the messages held for connection c: by NATS and in its outbound queue
Holdings(c) == Range(pending[c]) \cup Range(sendChan[c])

\* the rooms whose member set holds c
RoomsOf(c) == {r \in DOMAIN rooms : c \in rooms[r]}

\* the first frame is a JSON envelope of type JOIN whose payload decodes
ParseableJoin(f) == f.json /\ f.type = "JOIN" /\ f.pok

\* the format rule: 4 to 8 characters, each a letter or a digit
FormatRule(str) ==
    /\ Len(str) \in 4..8
    /\ \A i \in 1..Len(str) : str[i] \in Digits \cup Upper \cup Lower

\* C1: a message a peer published through a connection joined to one room
\* is never held for (by the bus or in the outbound queue, from which alone
\* writePump writes) a connection joined to a different room.
C1_RoomIsolation ==
    \A c \in Clients : \A m \in Holdings(c) :
        m.src # "" => room[m.src] = room[c]

\* two subscribed connections in different rooms, one holding its own MOVE
C1_Witness ==
    \E c \in Clients : \E d \in Clients \ {c} :
        /\ sub[c] /\ sub[d] /\ pc[d] = "readPump"
        /\ room[c] # room[d]
        /\ MoveFrame(c) \in Range(sendChan[c])

\* C2: a connection whose first message is not a parseable JOIN envelope is
\* closed with 4001, is in no room, has no subscription, and nothing its
\* peer sent is held for any connection.
C2_FirstMessageMustBeJoin ==
    \A c \in Clients :
        (firstMsg[c] # NoFrame /\ ~ParseableJoin(firstMsg[c])) =>
            /\ closeCode[c] = 4001
            /\ connClosed[c]
            /\ pc[c] = "rejected"
            /\ RoomsOf(c) = {}
            /\ ~sub[c]
            /\ \A d \in Clients : \A m \in Holdings(d) : m.src # c

\* a connection rejected for sending MOVE first, beside a joined one that
\* holds a message
C2_Witness ==
    \E c \in Clients : \E d \in Clients \ {c} :
        /\ firstMsg[c] = MoveFrame(c)
        /\ closeCode[c] = 4001
        /\ pc[d] = "readPump"
        /\ sendChan[d] # <<>>

\* C3: a first JOIN whose room matches the format rule succeeds (no close
\* code, subscribed) and, once registered, the connection is in exactly the
\* member set of that room; a first JOIN whose room does not match is
\* closed with 4002 and the connection is in no room.
C3_JoinByFormatRule ==
    \A c \in Clients :
        LET f == firstMsg[c] IN
        (f # NoFrame /\ ParseableJoin(f)) =>
            IF FormatRule(f.room)
            THEN /\ closeCode[c] = 0
                 /\ ~connClosed[c]
                 /\ sub[c]
                 /\ pc[c] \in {"addToRoom", "sendRoomStatus", "sendStatus", "readPump"}
                 /\ pc[c] # "addToRoom" => RoomsOf(c) = {f.room}
            ELSE /\ closeCode[c] = 4002
                 /\ connClosed[c]
                 /\ pc[c] = "rejected"
                 /\ ~sub[c]
                 /\ RoomsOf(c) = {}

\* an 8-character room was joined, beside the other connection's room
C3_Witness ==
    /\ Len(firstMsg["c1"].room) = 8
    /\ RoomsOf("c1") = {firstMsg["c1"].room}
    /\ RoomsOf("c2") = {Room1}

\* C4: when the bus hands a message to a member whose outbound queue is
\* full, the message is dropped for that member only (no queue changes, the
\* member's connection is neither closed nor moved, nothing panics); handed
\* to a member whose queue has room, it is enqueued; neither the callback
\* nor the publisher ever waits for room in a queue.
C4_DropOnFull ==
    [][\A c \in Clients :
        /\ (sub[c] /\ sub'[c] /\ pending[c] # <<>> /\ pending'[c] = Tail(pending[c])) =>
              IF Len(sendChan[c]) >= SendChanCap
              THEN /\ sendChan' = sendChan
                   /\ pc'[c] = pc[c] /\ wpc'[c] = wpc[c]
                   /\ closed' = closed /\ chanClosed' = chanClosed
                   /\ connClosed' = connClosed /\ rooms' = rooms
                   /\ ~panicked'
              ELSE /\ sendChan'[c] = Append(sendChan[c], Head(pending[c]))
                   /\ \A d \in Clients \ {c} : sendChan'[d] = sendChan[d]
        /\ (sub[c] /\ pending[c] # <<>> /\ ~panicked) => ENABLED Deliver(c)
        /\ (pc[c] = "readPump" /\ nframes < MaxFrames /\ ~panicked) =>
              ENABLED ReadMessage(c, MoveFrame(c))
      ]_vars

\* a member with a full queue is about to be handed a message that the
\* other member of its room already has in its queue
C4_Witness ==
    \E c \in Clients : \E d \in Clients \ {c} :
        /\ room[c] = room[d] /\ sub[c] /\ sub[d]
        /\ pc[c] = "readPump" /\ ~closed[c]
        /\ Len(sendChan[c]) = SendChanCap
        /\ pending[c] # <<>>
        /\ Head(pending[c]) \in Range(sendChan[d])

\* C5: a trySend that starts after the connection was marked closed
\* discards the message, and no send ever runs on a closed outbound queue.
C5_NoSendOnClosedQueue ==
    [][/\ \A c \in Clients :
            (pc[c] = "trySend" /\ pc'[c] = "trySendSelect") => ~closed[bcTarget'[c]]
       /\ ~panicked'
      ]_vars

\* a closing connection holds none of its resources any more
Released(c) == RoomsOf(c) = {} /\ ~sub[c] /\ chanClosed[c]

\* C6: a joined connection that closes is eventually out of every member
\* set, without its subscription and with its queue closed, and its write
\* loop has ended.
C6_ResourcesReleased ==
    \A c \in Clients : closed[c] ~> (Released(c) /\ wpc[c] = "done")

\* the only closing connections that keep a resource are those of a relay
\* that died of the send on a closed queue
C6_ReleasedUnlessPanicked ==
    \A c \in Clients : closed[c] ~> (panicked \/ (Released(c) /\ wpc[c] = "done"))

\* the connection has run addToRoom and not yet removeFromRoom
Member(c) ==
    \/ pc[c] \in {"sendRoomStatus", "sendStatus", "readPump", "closeSendChan"}
    \/ /\ pc[c] \in {"broadcastRoomStatus", "trySend", "trySendSelect"}
       /\ bcRet[c] = "readPump"

\* the connections that are members of room r by their join and leave history
MembersOf(r) == {c \in Clients : Member(c) /\ room[c] = r}

\* C7: after any joins and leaves RoomCount() is the number of rooms with at
\* least one member, ClientCount() is the number of memberships, and the
\* registry holds no room without members.
C7_CountsConsistent ==
    /\ RoomCount = Cardinality({room[c] : c \in {d \in Clients : Member(d)}})
    /\ ClientCount = Cardinality({c \in Clients : Member(c)})
    /\ \A r \in DOMAIN rooms : rooms[r] # {} /\ rooms[r] = MembersOf(r)

\* two connections were in two rooms, one has left, and the other's room is
\* the only one registered
C7_Witness ==
    \E c \in Clients : \E d \in Clients \ {c} :
        /\ pc[c] = "done" /\ room[c] = Room2
        /\ Member(d) /\ room[d] = Room1
        /\ RoomCount = 1 /\ ClientCount = 1

\* C8: from addToRoom to removeFromRoom a connection is in the member set of
\* exactly one room, the room of its JOIN, and no step changes that room; a
\* JOIN read by readPump leaves the connection where it is.
C8_RoomImmutable ==
    [][\A c \in Clients :
          /\ Member(c) => RoomsOf(c) = {room[c]}
          /\ (Member(c) /\ Member(c)') =>
                (room'[c] = room[c] /\ RoomsOf(c)' = RoomsOf(c))
          /\ ReadMessage(c, JoinFrame(c, Room2)) =>
                (room'[c] = room[c] /\ RoomsOf(c)' = RoomsOf(c))
      ]_vars

\* a member of Room1 has sent a JOIN naming Room2, which was relayed as an
\* ordinary message, and is still a member of Room1 only
C8_Witness ==
    \E c \in Clients : \E d \in Clients :
        /\ Member(c) /\ room[c] = Room1 /\ RoomsOf(c) = {Room1}
        /\ JoinFrame(c, Room2) \in Holdings(d)

\* the frame is a JSON envelope whose type is not IDENTIFY
WellFormedNonIdentify(f) == f.json /\ f.type # "IDENTIFY"

\* C9: a well-formed non-identify frame read from a joined connection is
\* handed unchanged to every subscribed connection of its room, the sender
\* included, whatever the sender's client type; the subscription callback
\* puts the oldest such frame unchanged on a queue that is not full.
C9_ForwardUnmodified ==
    [][/\ \A c \in Clients : \A f \in LaterFrames(c) :
            (ReadMessage(c, f) /\ WellFormedNonIdentify(f)) =>
                \A d \in Clients :
                    IF sub[d] /\ room[d] = room[c]
                    THEN pending'[d] = Append(pending[d], f)
                    ELSE pending'[d] = pending[d]
       /\ \A d \in Clients :
            (Deliver(d) /\ Len(sendChan[d]) < SendChanCap) =>
                sendChan'[d] = Append(sendChan[d], Head(pending[d]))
       /\ \A c \in Clients : (Member(c) /\ ~closed[c]) => sub[c]
      ]_vars

\* a MOVE of a connection that never identified is in the queue of the
\* sender and in the queue of the other member of its room
C9_Witness ==
    \E c \in Clients : \E d \in Clients \ {c} :
        /\ clientType[c] = ClientTypeUnknown
        /\ room[c] = room[d]
        /\ MoveFrame(c) \in Range(sendChan[c])
        /\ MoveFrame(c) \in Range(sendChan[d])

\* C10: isExpired(session, now, ttl) is true exactly when more than ttl has
\* passed since createdAt: false at createdAt, false one millisecond before
\* createdAt + ttl and at it, true one millisecond after.
C10_ExpiryBoundary ==
    checked =>
        /\ now <= session.createdAt + ttlMs => ~expired
        /\ now >= session.createdAt + ttlMs + 1 => expired
        /\ now = session.createdAt => ~expired
        /\ now = session.createdAt + ttlMs - 1 => ~expired
        /\ now = session.createdAt + ttlMs + 1 => expired

\* a session checked one millisecond after the default ttl ran out
C10_Witness ==
    /\ checked /\ expired
    /\ ttlMs = SESSION_TTL_MS
    /\ now = session.createdAt + ttlMs + 1

\* a session checked one millisecond before its ttl runs out
C10_WitnessBefore ==
    /\ checked /\ ~expired
    /\ ttlMs > 0
    /\ now = session.createdAt + ttlMs - 1

\* C11: validateSession, called by the PAIR handler, leaves the session
\* store as it was; it returns the stored session when the code is in the
\* store and no more than the ttl has passed since its creation, and null
\* otherwise; the same call made again returns the same.
C11_ValidateReadOnly ==
    [][\A code \in Codes \cup {"0000"} :
          HandleMessage(PairMsg(code)) =>
              /\ pairingSessions' = pairingSessions
              /\ validated' =
                    IF /\ code \in DOMAIN pairingSessions
                       /\ now - pairingSessions[code].createdAt <= SESSION_TTL_MS
                    THEN pairingSessions[code]
                    ELSE NoSession
              /\ validateSession(pairingSessions', code, now', SESSION_TTL_MS) = validated'
      ]_vars

\* a PAIR was answered with the session of its code, which is still stored
C11_Witness ==
    /\ validated # NoSession
    /\ validated.code \in DOMAIN pairingSessions
    /\ pairingSessions[validated.code] = validated
    /\ sent # <<>>
    /\ sent[1].type = "PAIR_SUCCESS"

\* C12: a pairing session leaves the store only once its ttl has run out
\* (the instant the ttl ends counted as run out); a successful PAIR leaves
\* the session in the store, and the same code validates again right after.
C12_RemovedOnlyOnceExpired ==
    [][/\ \A code \in DOMAIN pairingSessions :
             code \notin DOMAIN pairingSessions' =>
                 now - pairingSessions[code].createdAt >= SESSION_TTL_MS
       /\ \A code \in Codes :
             (HandleMessage(PairMsg(code)) /\ validated' # NoSession) =>
                 /\ code \in DOMAIN pairingSessions'
                 /\ validateSession(pairingSessions', code, now', SESSION_TTL_MS)
                        = validated'
      ]_vars

\* the part of C12 the code keeps: the TTL sweep removes expired sessions
\* only, and a PAIR removes none
C12_SweepAndPairKeepUnexpired ==
    [][(CleanupInterval \/ \E data \in PairFrames : HandleMessage(data)) =>
          \A code \in DOMAIN pairingSessions :
              code \notin DOMAIN pairingSessions' =>
                  isExpired(pairingSessions[code], now, SESSION_TTL_MS)
      ]_vars

\* the replies of one handled message are one failure of the given type
\* that carries a reason
FailedWith(out, type) ==
    /\ Len(out) = 1
    /\ out[1].type = type
    /\ out[1].reason # ""

\* C13: a PAIR whose code is unknown or expired is answered with
\* PAIR_FAILED; a LOGIN with an unknown user, no password set or a wrong
\* password and a LOGIN_WITH_TOKEN with an unknown or expired token are
\* answered with LOGIN_FAILED carrying a reason; the host's relay socket
\* stays open and no relay connection changes.
C13_FailuresAnsweredNotFatal ==
    [][/\ \A code \in Codes \cup {"0000"} :
             ( /\ HandleMessage(PairMsg(code))
               /\ \/ code \notin DOMAIN pairingSessions
                  \/ isExpired(pairingSessions[code], now, SESSION_TTL_MS) ) =>
                 /\ FailedWith(sent', "PAIR_FAILED")
                 /\ relaySocket' = "OPEN"
                 /\ UNCHANGED relayVars
       /\ \A u \in UserNames \cup {"carol"} : \A h \in {"h1", "bad"} :
             ( /\ HandleMessage(LoginMsg(u, h))
               /\ \/ u \notin users
                  \/ u \notin DOMAIN userPasswords
                  \/ userPasswords[u] # h ) =>
                 /\ FailedWith(sent', "LOGIN_FAILED")
                 /\ relaySocket' = "OPEN"
                 /\ UNCHANGED relayVars
       /\ \A tok \in TokenValues \cup {"forged"} :
             ( /\ HandleMessage(LoginWithTokenMsg(tok))
               /\ \/ tok \notin DOMAIN sessionTokens
                  \/ sessionTokens[tok].expiresAt < now ) =>
                 /\ FailedWith(sent', "LOGIN_FAILED")
                 /\ relaySocket' = "OPEN"
                 /\ UNCHANGED relayVars
      ]_vars

\* a token that was issued and has expired was refused, the socket open
C13_Witness ==
    /\ FailedWith(sent, "LOGIN_FAILED")
    /\ sent[1].reason = "invalid_token"
    /\ \E tok \in DOMAIN sessionTokens : sessionTokens[tok].expiresAt < now
    /\ relaySocket = "OPEN"

\* an expired pairing code still in the store was refused
C13_WitnessPair ==
    /\ FailedWith(sent, "PAIR_FAILED")
    /\ \E code \in DOMAIN pairingSessions :
          isExpired(pairingSessions[code], now, SESSION_TTL_MS)
    /\ validated = NoSession

\* the members of c's room in the registry
RoomMembers(c) == IF room[c] \in DOMAIN rooms THEN rooms[room[c]] ELSE {}

\* whether a member of c's room has identified as the host
HostPresent(c) == \E d \in RoomMembers(c) : clientType[d] = ClientTypeFoundry

\* the connections the status notification c's handler is about to run
\* will address: the members of the room as broadcastRoomStatus finds
\* them, or c alone for sendRoomStatus
StatusTargets(c) ==
    IF pc[c] = "broadcastRoomStatus" THEN RoomMembers(c)
    ELSE IF pc[c] = "sendRoomStatus" THEN {c}
    ELSE {}

\* readPump handles an IDENTIFY that changes c's client type
RoleChange(c) ==
    /\ \E f \in LaterFrames(c) : ReadMessage(c, f)
    /\ clientType'[c] # clientType[c]

C15_IdentifyConsumed ==
    [][/\ \A c \in Clients : \A f \in LaterFrames(c) :
            (ReadMessage(c, f) /\ f.json /\ f.type = "IDENTIFY") =>
                (pending' = pending /\ sendChan' = sendChan)
       /\ \A d \in Clients : \A msg \in Holdings(d)' : msg.type # "IDENTIFY"
      ]_vars

\* the host identified and then sent a MOVE: the MOVE is on the queue of
\* the other member, the IDENTIFY is on nobody's
C15_Witness ==
    \E c \in Clients : \E d \in Clients \ {c} :
        /\ clientType[c] = ClientTypeFoundry
        /\ d \in RoomMembers(c)
        /\ MoveFrame(c) \in Range(sendChan[d])
        /\ \A e \in Clients : \A msg \in Holdings(e) : msg.type # "IDENTIFY"

\* readPump's nc.Publish fails on a frame read from c, and readPump returns
PublishError(c) ==
    /\ \E f \in LaterFrames(c) : ReadMessage(c, f) /\ Forwards(c, f)
    /\ ncClosed

\* the step leaves every connection but c as it was: its membership, its
\* subscription, what NATS holds for it and its outbound queue
OthersUntouched(c) ==
    \A d \in Clients \ {c} :
        /\ RoomsOf(d)' = RoomsOf(d)
        /\ sub'[d] = sub[d]
        /\ pending'[d] = pending[d]
        /\ sendChan'[d] = sendChan[d]

\* C16: a failed publish and a failed socket write on a connection leave
\* every other connection's membership, subscription and queued messages
\* as they were, and the process does not crash.
C16_FaultFatalToOneOnly ==
    [][/\ \A c \in Clients :
            (PublishError(c) \/ WriteError(c)) => OthersUntouched(c)
       /\ ~panicked'
      ]_vars

\* the part of C16 the code keeps: the failing step itself touches no
\* other connection, and ends the reader of the one whose publish failed
C16_FaultStepIsLocal ==
    [][\A c \in Clients :
          /\ (PublishError(c) \/ WriteError(c)) => (OthersUntouched(c) /\ ~panicked')
          /\ PublishError(c) => (closed'[c] /\ ~sub'[c])
      ]_vars

\* C17: once the write loop of a connection has ended, on a failed write
\* or on its closed queue, the connection comes to be closed and torn
\* down: unsubscribed, marked closed, out of the registry.
C17_WriteFailureTerminates ==
    \A c \in Clients : (wpc[c] = "done") ~> (closed[c] /\ Released(c))

\* what the code does on a failed write: the write loop ends and nothing
\* else of the connection changes
C17_WriteFailureOnlyEndsWriter ==
    [][\A c \in Clients :
          WriteError(c) =>
              /\ wpc'[c] = "done"
              /\ closed' = closed /\ connClosed' = connClosed
              /\ sub' = sub /\ rooms' = rooms /\ pc' = pc
      ]_vars

\* the frame fails the relay's validation: its bytes are not a JSON
\* envelope, or it is an IDENTIFY whose payload does not decode or names no
\* known client type
FailsValidation(f) ==
    \/ ~f.json
    \/ /\ f.type = "IDENTIFY"
       /\ (~f.pok \/ f.clientType \notin {"foundry", "phone"})

FromPeer(msg) == msg.src # ""

\* the peers' frames on their way to the socket of d, oldest first: those
\* on d's outbound queue, then those NATS holds for d's callback
Stream(d) == SelectSeq(sendChan[d] \o pending[d], FromPeer)

\* a is b with some of its elements left out
RECURSIVE IsSubSeq(_, _)
IsSubSeq(a, b) ==
    IF a = <<>> THEN TRUE
    ELSE IF b = <<>> THEN FALSE
    ELSE IF Head(a) = Head(b) THEN IsSubSeq(Tail(a), Tail(b))
    ELSE IsSubSeq(a, Tail(b))

SchedulesRetry ==
    /\ reconnectTimeout' = "pending"
    /\ reconnectTimeout # "pending" \/ reconnectAttempts' = reconnectAttempts + 1

\* C20: a reconnect timer is set only by the close of a socket while the
\* client is paired, so only after PAIR_SUCCESS or SELECT_TOKEN_SUCCESS was
\* handled; the close of a socket while the client is not paired sets no
\* timer and counts no attempt.
C20_BackoffOnlyWhenPaired ==
    [][/\ SchedulesRetry => (isPaired /\ \E n \in SocketIds : SocketClose(n))
       /\ \A n \in SocketIds :
            (SocketClose(n) /\ ~isPaired) =>
                /\ reconnectTimeout' = reconnectTimeout
                /\ reconnectAttempts' = reconnectAttempts
       /\ (isPaired' /\ ~isPaired) =>
              (handleMessage("PAIR_SUCCESS") \/ handleMessage("SELECT_TOKEN_SUCCESS"))
      ]_vars

\* a paired client's socket closed, and the retry is pending
C20_Witness ==
    /\ isPaired
    /\ reconnectTimeout = "pending"
    /\ reconnectAttempts = 1
    /\ \E n \in SocketIds : wsState[n] = "CLOSED" /\ wsKind[n] = "connect"

\* the socket of a client that never paired closed, and no retry is set
C20_WitnessUnpaired ==
    /\ ~isPaired /\ pendingPairingCode
    /\ reconnectTimeout = "null" /\ reconnectAttempts = 0
    /\ socket # 0 /\ wsState[socket] = "CLOSED" /\ wsKind[socket] = "connect"

\* the delays the first six attempts wait, in milliseconds
FirstDelays == <<1000, 2000, 4000, 8000, 16000, 30000>>

\* C21: the timer scheduleReconnect sets for attempt n waits
\* min(1000 * 2^n, 30000) ms: 1000, 2000, 4000, 8000, 16000, 30000 for
\* attempts 0 to 5, and never more than 30000 ms for a later attempt.
C21_DelayIsCappedDoubling ==
    [][SchedulesRetry =>
          LET n == reconnectAttempts
              cap == 30000
              doubled == 1000 * 2^n
          IN /\ reconnectDelay' = (IF doubled < cap THEN doubled ELSE cap)
             /\ n <= 5 => reconnectDelay' = FirstDelays[n + 1]
             /\ reconnectDelay' <= cap]_vars

\* attempt 5 was scheduled: the first delay the ceiling cuts
C21_Witness ==
    /\ reconnectTimeout = "pending"
    /\ reconnectAttempts = 6
    /\ reconnectDelay = 30000

\* an attempt after the sixth was scheduled
C21_WitnessLater ==
    /\ reconnectTimeout = "pending"
    /\ reconnectAttempts > 6
    /\ reconnectDelay = 30000

\* socket n opens in the step
Opens(n) == wsState[n] = "CONNECTING" /\ wsState'[n] = "OPEN"

\* C22: every open of a socket resets the reconnect attempt counter to 0,
\* the counter leaves 0 only when a retry is scheduled, and a retry
\* scheduled while the counter is 0, the first after an open, waits the
\* base delay of 1000 ms.
C22_OpenResetsBackoff ==
    [][/\ \A n \in SocketIds : Opens(n) => reconnectAttempts' = 0
       /\ (reconnectAttempts = 0 /\ reconnectAttempts' # 0) => SchedulesRetry
       /\ (SchedulesRetry /\ reconnectAttempts = 0) => reconnectDelay' = 1000]_vars

\* the socket of a retry opened and closed again: the next retry is
\* scheduled at the base delay
C22_Witness ==
    /\ wsState[1] = "CLOSED" /\ wsState[2] = "NONE"
    /\ isPaired
    /\ reconnectTimeout = "pending"
    /\ reconnectAttempts = 1
    /\ reconnectDelay = 1000

\* socket n is state.socket and open
CurrentOpen(n) == socket = n /\ wsState[n] = "OPEN"

\* an IDENTIFY was sent on state.socket after its first message
IdentifiedAfterJoin ==
    \E i \in 2..Len(wsSent) : wsSent[i] = ClientMsg("IDENTIFY", "")

Reasserted ==
    \E i \in 1..Len(wsSent) : wsSent[i].type \in {"PAIR", "LOGIN_WITH_TOKEN"}

\* C24: when state.socket opens while the client is paired, so after the
\* socket of its session closed, the open sends or schedules a PAIR or a
\* LOGIN_WITH_TOKEN on the new socket.
C24_ReopenReassertsSession ==
    [][\A n \in SocketIds :
          (Opens(n) /\ socket = n /\ isPaired) =>
              \/ Reasserted'
              \/ sendTimers' \cap {"PAIR", "LOGIN_WITH_TOKEN"} # {}]_vars

\* the entries of an ordered Map that are not expired at t, in their order
Unexpired(sessions, t, ttl) ==
    SelectSeq(sessions, LAMBDA s : ~isExpired(s, t, ttl))

\* C25: cleanupExpiredSessions(sessions, now, ttl) deletes exactly the
\* entries that are expired at now, leaves every other entry in the store
\* unchanged and in place, and returns the number of entries it deleted.
C25_CleanupDeletesExactlyExpired ==
    [][\A t \in StoreTimes : \A ttl \in StoreTTLs :
          CleanupExpiredSessions(t, ttl) =>
              /\ store' = Unexpired(store, t, ttl)
              /\ \A s \in Range(store) : s \in Range(store') <=> ~isExpired(s, t, ttl)
              /\ removed' = Len(store) - Len(store')
              /\ removed' = Cardinality({i \in 1..Len(store) : isExpired(store[i], t, ttl)})]_vars

\* a cleanup deleted one of two entries and kept the other
C25_Witness ==
    /\ removed = 1
    /\ Len(store) = 1

\* C26: findSessionByToken(sessions, tokenId, now) returns a session of the
\* store that has that tokenId and is not expired whenever the store holds
\* one, and null otherwise; it never returns an expired session or a
\* session of another token.
C26_FindReturnsLiveSessionOfEntity ==
    [][\A tokenId \in TokenIds : \A t \in StoreTimes : \A ttl \in StoreTTLs :
          FindSessionByToken(tokenId, t, ttl) =>
              LET live == {s \in Range(store) :
                              s.tokenId = tokenId /\ ~isExpired(s, t, ttl)}
              IN /\ live # {} => found' \in live
                 /\ live = {} => found' = NoSession]_vars

\* the lookup passed over an expired session of the token and returned a
\* later, unexpired one
C26_Witness ==
    /\ Len(store) = 2
    /\ found = store[2]
    /\ store[1].tokenId = found.tokenId
    /\ store[1].createdAt < found.createdAt

\* the clients NATS queues a message for in the step
QueuedFor == {d \in Clients : pending'[d] # pending[d]}

\* C27: a PAIR_FAILED the host sends for a PAIR with an unregistered code
\* is queued for one client of the room at most, the one that sent the
\* PAIR, and not for another client that joined the same room.
C27_PairFailedOnlyToRequester ==
    [][(ReadHostMessage /\ Head(sent).type = "PAIR_FAILED") =>
          Cardinality(QueuedFor) <= 1]_vars

\* C28: a connection's client type starts as unknown and, once an IDENTIFY
\* has set it, no later step and no later IDENTIFY changes it.
C28_RoleSetAtMostOnce ==
    /\ [](\A c \in Clients : pc[c] = "waitForJoin" => clientType[c] = ClientTypeUnknown)
    /\ [][\A c \in Clients :
             clientType[c] # ClientTypeUnknown => clientType'[c] = clientType[c]]_vars

HandlerTag ==
    [JOIN |-> "join", PAIR |-> "pair", PAIR_SUCCESS |-> "pairSuccess",
     PAIR_FAILED |-> "pairFailed", LOGIN |-> "login",
     LOGIN_SUCCESS |-> "loginSuccess", LOGIN_FAILED |-> "loginFailed",
     SELECT_TOKEN |-> "selectToken",
     SELECT_TOKEN_SUCCESS |-> "selectTokenSuccess", MOVE |-> "move",
     MOVE_ACK |-> "moveAck", ACTOR_INFO |-> "actorInfo",
     ACTOR_UPDATE |-> "actorUpdate", USE_ABILITY |-> "useAbility",
     USE_ABILITY_RESULT |-> "useAbilityResult", ROLL_DICE |-> "rollDice",
     ROLL_DICE_RESULT |-> "rollDiceResult"]

\* C31: routeMessage is total: an envelope of a declared message type
\* maps to that type's handler tag, an envelope of any other type string
\* maps to 'unknown', and the payload is passed through unchanged.
C31_RouteIsTotal ==
    codec.stage = "routed" =>
        /\ codec.env.type \in MessageTypes =>
              codec.route.handler = HandlerTag[codec.env.type]
        /\ codec.env.type \notin MessageTypes => codec.route.handler = "unknown"
        /\ codec.route.payload = codec.env.payload


\* the text is one well-formed JSON value, an object, whose type is a string
WellFormedWithType(text) ==
    /\ JSONparse(text).ok
    /\ JSONparse(text).val.k = "object"
    /\ HasProp(JSONparse(text).val.v, "type")
    /\ GetProp(JSONparse(text).val.v, "type").k = "string"

\* C32: parse succeeds exactly on well-formed JSON objects that have a
\* string type field, yields an empty-object payload when the payload is
\* missing, and fails on every other input; for parseMessage and for
\* ParseEnvelope.
C32_ParseAcceptsExactlyTypedObjects ==
    codec.stage \in {"parsed", "unmarshalled"} =>
        /\ codec.env.ok <=> WellFormedWithType(codec.wire)
        /\ (codec.env.ok /\ ~HasProp(JSONparse(codec.wire).val.v, "payload")) =>
              DeepEqual(codec.env.payload, JObj(<<>>))


\* the upper-case letter of each lower-case letter
UpperOf ==
    [a |-> "A", b |-> "B", c |-> "C", d |-> "D", e |-> "E", f |-> "F",
     g |-> "G", h |-> "H", i |-> "I", j |-> "J", k |-> "K", l |-> "L",
     m |-> "M", n |-> "N", o |-> "O", p |-> "P", q |-> "Q", r |-> "R",
     s |-> "S", t |-> "T", u |-> "U", v |-> "V", w |-> "W", x |-> "X",
     y |-> "Y", z |-> "Z"]

\* two room codes that differ at most in letter case
EqualFold(r1, r2) ==
    /\ Len(r1) = Len(r2)
    /\ \A i \in 1..Len(r1) :
          (IF r1[i] \in Lower THEN UpperOf[r1[i]] ELSE r1[i])
              = (IF r2[i] \in Lower THEN UpperOf[r2[i]] ELSE r2[i])

\* C33: room codes are case-insensitive: two connections whose JOIN room
\* codes differ only in letter case are members of the same room of the
\* registry and subscribed to the same subject, so that what one publishes
\* is held for the other.
C33_RoomCodesCaseInsensitive ==
    \A c \in Clients : \A d \in Clients :
        (Member(c) /\ Member(d) /\ sub[c] /\ sub[d] /\ EqualFold(room[c], room[d])) =>
            /\ RoomsOf(c) = RoomsOf(d)
            /\ Subject(room[c]) = Subject(room[d])


HasLiveSession(tokenId) ==
    \E code \in DOMAIN pairingSessions :
        /\ pairingSessions[code].tokenId = tokenId
        /\ now - pairingSessions[code].createdAt <= SESSION_TTL_MS

\* the host gave a MOVE_ACK for the token to its socket
Acked(out, tokenId) ==
    \E i \in 1..Len(out) : out[i].type = "MOVE_ACK" /\ out[i].tokenId = tokenId

\* C35: the host changes a token's position, and answers a MOVE with
\* MOVE_ACK, only if at that moment its session store holds a non-expired
\* session for that token; a MOVE for a token without one leaves every
\* position as it was and sends nothing.
C35_MoveNeedsLiveSession ==
    [][/\ \A tokenId \in TokenIds :
             tokenPos'[tokenId] # tokenPos[tokenId] => HasLiveSession(tokenId)
       /\ \A data \in MoveFrames :
             HandleMoveMessage(data) =>
                /\ Acked(sent', data.payload.tokenId) => HasLiveSession(data.payload.tokenId)
                /\ ~HasLiveSession(data.payload.tokenId) =>
                      (tokenPos' = tokenPos /\ sent' = <<>>)
      ]_vars

\* tok1 was moved and acknowledged; its session has since expired and is
\* still in the store, and tok1 stays where it is
C35_Witness ==
    /\ tokenPos["tok1"] # StartPositions["tok1"]
    /\ \E code \in DOMAIN pairingSessions : pairingSessions[code].tokenId = "tok1"
    /\ ~HasLiveSession("tok1")
    /\ sent = <<>>


\* no join, leave, identify or status broadcast is under way
Quiescent == \A c \in Clients : pc[c] \in {"waitForJoin", "readPump", "done"}

\* the foundryConnected a ROOM_STATUS for room r would carry now
HostPresence(r) == IF isFoundryConnected(r) THEN "true" ELSE "false"

\* C36: once joins, leaves and identifies have stopped and no select found a
\* sendChan full, the last ROOM_STATUS each member's sendChan took reports
\* whether a host connection is a member of the room
C36_LastStatusReportsHost ==
    (statusLog.on /\ ~statusLog.full /\ ~panicked /\ Quiescent) =>
        \A r \in DOMAIN rooms : \A t \in rooms[r] :
            statusLog.last[t] # "" => statusLog.last[t] = HostPresence(r)


\* the session showPairingDialog stored when it scheduled timer tm
IssuedSession(tm) ==
    createSession(tm.code, tm.tokenId, "scene1", "actor1", tm.due - SESSION_TTL_MS)

\* C37: every session that was issued and is not expired is what the store
\* holds under its code, whatever other codes were issued since
C37_IssuedSessionsStayRetrievable ==
    \A tm \in expireTimers :
        ~isExpired(IssuedSession(tm), now, SESSION_TTL_MS) =>
            /\ tm.code \in DOMAIN pairingSessions
            /\ pairingSessions[tm.code] = IssuedSession(tm)


\* the tokens listed in the LOGIN_SUCCESS of a user who is logged in
ListedForSomeLogin ==
    UNION {getControllableTokens(u, FALSE) : u \in DOMAIN authenticatedSessions}

\* C38: a SELECT_TOKEN makes the host store a login session for a token only
\* if a user has logged in and the token is among those listed for that user
C38_BindingNeedsLoginAndListing ==
    [][\A data \in SelectFrames :
          (HandleSelectMessage(data) /\ pairingSessions' # pairingSessions) =>
              data.payload.tokenId \in ListedForSomeLogin
      ]_vars


\* the sockets the client made that are connecting or open
LiveSockets == {n \in SocketIds : wsState[n] \in {"CONNECTING", "OPEN"}}

\* the reconnect timers that are set and have not fired: every setTimeout of
\* scheduleReconnect is kept in the one reconnectTimeout and is preceded by
\* clearTimeout of what it held
PendingReconnectTimers == IF reconnectTimeout = "pending" THEN {reconnectTimeout} ELSE {}

\* C39: the client never has two sockets that are connecting or open, and
\* never two pending reconnect timers
C39_OneSocketOneTimer ==
    /\ Cardinality(LiveSockets) <= 1
    /\ Cardinality(PendingReconnectTimers) <= 1

\* a step of the user: pair, or connectForStatus for a room
UserStarts == Pair \/ \E r \in RoomCodes : ConnectForStatus(r)

\* a step in which new WebSocket(wsUrl) ran
OpensConnection == \E n \in SocketIds : wsState[n] = "NONE" /\ wsState'[n] # "NONE"

====
